---- MODULE Spec2Model ----
(***************************************************************************)
(* caseClipper: the persistence manager (src/src/file_manager.py) and the  *)
(* clipboard monitor (src/src/clipboard_monitor.py) as state machines.     *)
(*                                                                         *)
(* Spec         the FileManager: one calling thread issuing save calls,    *)
(*              the enrichment tasks of its thread pool, the file lock,    *)
(*              the output directory and the wall clock.                   *)
(* MonitorSpec  the ClipboardMonitor: start/stop callers and the worker    *)
(*              threads running the poll loop.                             *)
(* WorkerSpec   the ClipboardMonitor called by one thread; WorkerLiveSpec  *)
(*              adds that a started worker gets to run.                    *)
(* FullCacheSpec  WorkerSpec late in a session, the hash cache full.       *)
(* ParserSpec   the DataParser (src/src/data_parser.py) applied to texts.  *)
(* SweepSpec    cleanup_old_files on a directory of earlier captures.      *)
(* ClassifySpec   _classify_content_type applied to chunk texts.            *)
(* ProcessorSpec  the ContextProcessor (src/src/context_processor.py)      *)
(*              called by two enrichment tasks at once.                    *)
(* AnalyzeSpec  analyze_existing_files called twice on a directory.        *)
(***************************************************************************)
EXTENDS Integers, Sequences, FiniteSets, TLC

VARIABLES
    now,                         \* datetime.now(), in whole seconds
    dir_exists,                  \* FileManager.output_dir exists on disk
    files,                       \* the output directory: path -> data
    file_lock,                   \* FileManager.file_lock: its holder
    call,                        \* the calling thread's frame in a save call
    tasks,                       \* FileManager.thread_pool: submitted tasks
    pool_shutdown,               \* thread_pool.shutdown() has been called
    context_processing_enabled,  \* Config.context_processing_enabled
    faults,                      \* I/O errors raised so far
    monitoring,                  \* ClipboardMonitor.monitoring
    monitor_thread,              \* ClipboardMonitor.monitor_thread
    workers,                     \* the threads started on _monitor_loop
    clipboard,                   \* what pyperclip.paste() returns
    last_content,                \* ClipboardMonitor.last_content
    content_hash_cache,          \* ClipboardMonitor.content_hash_cache
    processed,                   \* contents processed since the cache was cleared
    event,                       \* what the last step of a worker did
    callers,                     \* the threads that call start/stop_monitoring
    parser,                      \* a caller of the DataParser: text and results
    old,                         \* the files whose st_mtime is before the cutoff
    sweep,                       \* the frame of a call of cleanup_old_files
    langchain_available,         \* context_processor.LANGCHAIN_AVAILABLE
    performance_mode,            \* Config.performance_mode
    thread_pool,                 \* ContextProcessor.thread_pool: queue and running work
    analyses,                    \* the run of _process_with_timeout of each task
    enrichers,                   \* the frames of the running _process_enhanced_content
    chunk,                       \* a caller of _classify_content_type: text and result
    scan                         \* the frame of the calls of analyze_existing_files

fmVars == <<now, dir_exists, files, file_lock, call, tasks, pool_shutdown,
            context_processing_enabled, faults>>
monVars == <<monitoring, monitor_thread, workers, clipboard, last_content,
             content_hash_cache, processed, event, callers>>
parserVars == <<parser>>
sweepVars == <<old, sweep>>
cpVars == <<langchain_available, performance_mode, thread_pool, analyses,
            enrichers, chunk, scan>>
vars == <<fmVars, monVars, parserVars, sweepVars, cpVars>>

----------------------------------------------------------------------------
(* Bounds of the model. *)

MaxCalls == 2       \* save calls issued by the calling thread
MaxClock == 1       \* seconds the wall clock advances
MaxFaults == 1      \* I/O errors the file system raises
MaxMonitorCalls == 3 \* calls of start_monitoring and stop_monitoring
MaxLen == 3         \* tokens in a text given to the parser

(* Program constants. *)

max_file_size_mb == 10
PoolWorkers == 3

Ceiling == max_file_size_mb * 1024 * 1024

----------------------------------------------------------------------------
(* Paths.  A file name is base[_ts][_tag]ext; the fields keep apart the    *)
(* pieces that the string operations of the code put together.             *)

NoTs == 0 - 1

Path(base, ts, tag, ext) == [base |-> base, ts |-> ts, tag |-> tag, ext |-> ext]

NoPath == Path("", NoTs, "", "")

\* DataParser.generate_filename: "ICM_{icm}.txt", "Case_{case}.txt"
Filenames == {Path("ICM_1", NoTs, "", ".txt"), Path("Case_2", NoTs, "", ".txt")}

\* f"{base_name}_{timestamp}{extension}" with timestamp = now to the second
Timestamped(p, t) == [p EXCEPT !.ts = t]

\* Path.with_suffix('.tmp')
TempOf(p) == [p EXCEPT !.ext = ".tmp"]

\* filename.replace finding no '.txt' to replace: the name comes back as it
\* went in
Companion_SameName(p, tag) == p

\* filename.replace('.txt', '_<tag>.json') and '.txt' -> '_condensed.txt'
Companion(p, tag) ==
    IF p.ext = ".txt" /\ p.tag = ""
    THEN [p EXCEPT !.tag = tag,
                   !.ext = IF tag = "condensed" THEN ".txt" ELSE ".json"]
    ELSE p

IsTemp(p) == p.ext = ".tmp"
IsFinal(p) == ~IsTemp(p)
IsRaw(p) == p.ext = ".txt" /\ p.tag = ""

----------------------------------------------------------------------------
(* Contents and file data. *)

\* The text of a capture is named by the number of the call that saves it
\* (each call brings a text of its own); Earlier is the text of a capture
\* that an earlier session left in the output directory.  A text is as long
\* as the ceiling allows or one character longer.
Earlier == [txt |-> 0, len |-> 1]
ContentsOf(n) == [txt : {n}, len : {Ceiling, Ceiling + 1}]
NoContent == [txt |-> 0 - 1, len |-> 0]

\* the size check off by one
TooLarge_OffByOne(c) == c.len > Ceiling + 1

\* len(content) > self.config.max_file_size_mb * 1024 * 1024
TooLarge(c) == c.len > Ceiling

\* what a file holds: the kind of document, the capture it was made from,
\* and whether the writer finished it
Data(kind, c, whole) == [kind |-> kind, of |-> c.txt, whole |-> whole]

EmptyDir == [p \in {} |-> Data("raw", NoContent, FALSE)]

Exists(fs, p) == p \in DOMAIN fs
Put(fs, p, d) == [q \in DOMAIN fs \cup {p} |-> IF q = p THEN d ELSE fs[q]]
Remove(fs, p) == [q \in DOMAIN fs \ {p} |-> fs[q]]
\* Path.replace(target): rename over the target
Rename(fs, src, dst) == Remove(Put(fs, dst, fs[src]), src)

RawFiles(fs) == {p \in DOMAIN fs : IsRaw(p)}

----------------------------------------------------------------------------
(* The file lock. *)

Unlocked == "unlocked"
CallerHolds == "caller"
TaskHolds == "worker"

----------------------------------------------------------------------------
(* The calling thread: save_case_data, save_with_metadata and              *)
(* save_enhanced_case_data.  call.pc is the statement it is about to run.  *)

Ops == {"save_case_data", "save_with_metadata", "save_enhanced_case_data"}

Frame(n, op, c, f, pc, result) ==
    [n |-> n, op |-> op, content |-> c, filename |-> f, pc |-> pc,
     file_path |-> NoPath, metadata_path |-> NoPath, success |-> FALSE,
     result |-> result, wrote |-> {}]

\* return (ok, message): result "ok" is (True, ...), every other is (False, ...)
Return(result) == [call EXCEPT !.pc = "idle", !.result = result]

Returned == call.n > 0 /\ call.pc = "idle"
ReturnedOk == Returned /\ call.result = "ok"

\* the duplicate check left out: the content goes to the name as given
TargetPath_NoSuffix(fs, filename, t) == filename

\* file_manager.py 83-91: the path the raw content is stored under
TargetPath(fs, filename, t) ==
    IF Exists(fs, filename) THEN Timestamped(filename, t) ELSE filename

\* entry of a save call, down to the size check of save_case_data
Call(op, c, f) ==
    /\ call.pc = "idle"
    /\ call.n < MaxCalls
    /\ call' = IF TooLarge(c)
               THEN Frame(call.n + 1, op, c, f, "idle", "size")
               ELSE Frame(call.n + 1, op, c, f, "ensure", "none")
    /\ UNCHANGED <<monVars, parserVars, sweepVars, cpVars>>
    /\ UNCHANGED <<now, dir_exists, files, file_lock, tasks, pool_shutdown,
                   context_processing_enabled, faults>>

\* ensure_output_directory: with self.file_lock: mkdir(parents, exist_ok)
EnsureOutputDirectory ==
    /\ call.pc = "ensure"
    /\ file_lock = Unlocked
    /\ \/ /\ dir_exists' = TRUE
          /\ file_lock' = CallerHolds
          /\ call' = [call EXCEPT !.pc = "ensured"]
          /\ UNCHANGED faults
       \/ /\ ~dir_exists
          /\ faults < MaxFaults
          /\ faults' = faults + 1
          /\ call' = Return("dir")
          /\ UNCHANGED <<dir_exists, file_lock>>
    /\ UNCHANGED <<monVars, parserVars, sweepVars, cpVars>>
    /\ UNCHANGED <<now, files, tasks, pool_shutdown, context_processing_enabled>>

\* leaving the with block of ensure_output_directory
EnsureExit ==
    /\ call.pc = "ensured"
    /\ file_lock' = Unlocked
    /\ call' = [call EXCEPT !.pc = "raw_write"]
    /\ UNCHANGED <<monVars, parserVars, sweepVars, cpVars>>
    /\ UNCHANGED <<now, dir_exists, files, tasks, pool_shutdown,
                   context_processing_enabled, faults>>

\* save_case_data 82-96: take the lock, resolve the name, write the content
\* to the temp file.  An exception leaves the with block (the lock is
\* released) for the except clause 104-107; one raised by f.write leaves the
\* temp file behind, unfinished.
RawWrite ==
    /\ call.pc = "raw_write"
    /\ file_lock = Unlocked
    /\ LET path == TargetPath(files, call.filename, now) IN
       \/ /\ files' = Put(files, TempOf(path), Data("raw", call.content, TRUE))
          /\ file_lock' = CallerHolds
          /\ call' = [call EXCEPT !.pc = "raw_replace", !.file_path = path]
          /\ UNCHANGED faults
       \/ /\ faults < MaxFaults
          /\ faults' = faults + 1
          /\ \/ UNCHANGED files
             \/ files' = Put(files, TempOf(path), Data("raw", call.content, FALSE))
          /\ call' = [Return("io") EXCEPT !.file_path = path]
          /\ UNCHANGED file_lock
    /\ UNCHANGED <<monVars, parserVars, sweepVars, cpVars>>
    /\ UNCHANGED <<now, dir_exists, tasks, pool_shutdown, context_processing_enabled>>

\* save_case_data 99-102: temp_file.replace(file_path), release, return True;
\* the callers 122-124 and 153-155 go on when it returned success
RawReplace ==
    /\ call.pc = "raw_replace"
    /\ file_lock' = Unlocked
    /\ \/ /\ files' = Rename(files, TempOf(call.file_path), call.file_path)
          /\ call' = [call EXCEPT
                 !.success = TRUE,
                 !.wrote = @ \cup {call.file_path},
                 !.pc = CASE call.op = "save_case_data" -> "idle"
                          [] call.op = "save_with_metadata" -> "meta_open"
                          [] OTHER -> "submit",
                 !.result = IF call.op = "save_case_data" THEN "ok" ELSE "none"]
          /\ UNCHANGED faults
       \/ /\ faults < MaxFaults
          /\ faults' = faults + 1
          /\ call' = Return("io")
          /\ UNCHANGED files
    /\ UNCHANGED <<monVars, parserVars, sweepVars, cpVars>>
    /\ UNCHANGED <<now, dir_exists, tasks, pool_shutdown, context_processing_enabled>>

\* save_with_metadata 127-130: open(metadata_path, 'w')
MetaOpen ==
    /\ call.pc = "meta_open"
    /\ LET path == Companion(call.filename, "metadata") IN
       \/ /\ files' = Put(files, path, Data("metadata", call.content, FALSE))
          /\ call' = [call EXCEPT !.pc = "meta_write", !.metadata_path = path,
                                  !.wrote = @ \cup {path}]
          /\ UNCHANGED faults
       \/ /\ faults < MaxFaults
          /\ faults' = faults + 1
          /\ call' = [Return("io") EXCEPT !.metadata_path = path]
          /\ UNCHANGED files
    /\ UNCHANGED <<monVars, parserVars, sweepVars, cpVars>>
    /\ UNCHANGED <<now, dir_exists, file_lock, tasks, pool_shutdown,
                   context_processing_enabled>>

\* save_with_metadata 131-133: json.dump(metadata, f), close, return True
MetaWrite ==
    /\ call.pc = "meta_write"
    /\ \/ /\ files' = Put(files, call.metadata_path,
                          Data("metadata", call.content, TRUE))
          /\ call' = Return("ok")
          /\ UNCHANGED faults
       \/ /\ faults < MaxFaults
          /\ faults' = faults + 1
          /\ call' = Return("io")
          /\ UNCHANGED files
    /\ UNCHANGED <<monVars, parserVars, sweepVars, cpVars>>
    /\ UNCHANGED <<now, dir_exists, file_lock, tasks, pool_shutdown,
                   context_processing_enabled>>

Task(c, f) == [content |-> c, filename |-> f, pc |-> "queued",
               stage |-> "enhanced_metadata", path |-> NoPath]

\* save_enhanced_case_data 158-176: thread_pool.submit raises RuntimeError
\* once the pool is shut down, and the except clause returns failure
Submit ==
    /\ call.pc = "submit"
    /\ IF context_processing_enabled
       THEN IF pool_shutdown
            THEN call' = Return("submit") /\ UNCHANGED tasks
            ELSE /\ tasks' = Append(tasks, Task(call.content, call.filename))
                 /\ call' = Return("ok")
       ELSE call' = Return("ok") /\ UNCHANGED tasks
    /\ UNCHANGED <<monVars, parserVars, sweepVars, cpVars>>
    /\ UNCHANGED <<now, dir_exists, files, file_lock, pool_shutdown,
                   context_processing_enabled, faults>>

----------------------------------------------------------------------------
(* The enrichment tasks: _process_enhanced_content on a pool worker.       *)

Stages == <<"enhanced_metadata", "context_protocol", "condensed">>

NextStage(st) == CASE st = "enhanced_metadata" -> "context_protocol"
                   [] st = "context_protocol" -> "condensed"
                   [] OTHER -> "none"

Running == {i \in DOMAIN tasks : tasks[i].pc # "queued"}

SetTask(i, pc) == [tasks EXCEPT ![i].pc = pc]

\* the task returns: its worker is free again and its future is dropped
EndTask(i) == [j \in 1..(Len(tasks) - 1) |-> IF j < i THEN tasks[j] ELSE tasks[j + 1]]

\* a free worker of ThreadPoolExecutor(max_workers=3) takes the oldest task
TaskStart(i) ==
    /\ tasks[i].pc = "queued"
    /\ Cardinality(Running) < PoolWorkers
    /\ \A j \in 1..(i - 1) : tasks[j].pc # "queued"
    /\ tasks' = SetTask(i, "analyze")
    /\ UNCHANGED <<monVars, parserVars, sweepVars, cpVars>>
    /\ UNCHANGED <<now, dir_exists, files, file_lock, call, pool_shutdown,
                   context_processing_enabled, faults>>

\* 184-189: process_case_content; an error-tagged result ends the task
TaskAnalyze(i) ==
    /\ tasks[i].pc = "analyze"
    /\ \/ tasks' = SetTask(i, "write")
       \/ tasks' = EndTask(i)
    /\ UNCHANGED <<monVars, parserVars, sweepVars, cpVars>>
    /\ UNCHANGED <<now, dir_exists, files, file_lock, call, pool_shutdown,
                   context_processing_enabled, faults>>

\* 192-198, 204-210, 214-222: derive the artifact's name from filename, take
\* the lock and write the temp file; an exception ends the task (228-229)
TaskWrite(i) ==
    /\ tasks[i].pc = "write"
    /\ file_lock = Unlocked
    /\ LET path == Companion(tasks[i].filename, tasks[i].stage) IN
       \/ /\ files' = Put(files, TempOf(path),
                          Data(tasks[i].stage, tasks[i].content, TRUE))
          /\ file_lock' = TaskHolds
          /\ tasks' = [tasks EXCEPT ![i].pc = "replace", ![i].path = path]
          /\ UNCHANGED faults
       \/ /\ faults < MaxFaults
          /\ faults' = faults + 1
          /\ \/ UNCHANGED files
             \/ files' = Put(files, TempOf(path),
                             Data(tasks[i].stage, tasks[i].content, FALSE))
          /\ tasks' = EndTask(i)
          /\ UNCHANGED file_lock
    /\ UNCHANGED <<monVars, parserVars, sweepVars, cpVars>>
    /\ UNCHANGED <<now, dir_exists, call, pool_shutdown, context_processing_enabled>>

\* 199, 211, 223: temp_file.replace(path), release, go on to the next artifact
TaskReplace(i) ==
    /\ tasks[i].pc = "replace"
    /\ file_lock' = Unlocked
    /\ \/ /\ files' = Rename(files, TempOf(tasks[i].path), tasks[i].path)
          /\ tasks' = IF NextStage(tasks[i].stage) = "none"
                      THEN EndTask(i)
                      ELSE [tasks EXCEPT ![i].pc = "write",
                                         ![i].stage = NextStage(@)]
          /\ UNCHANGED faults
       \/ /\ faults < MaxFaults
          /\ faults' = faults + 1
          /\ tasks' = EndTask(i)
          /\ UNCHANGED files
    /\ UNCHANGED <<monVars, parserVars, sweepVars, cpVars>>
    /\ UNCHANGED <<now, dir_exists, call, pool_shutdown, context_processing_enabled>>

\* cleanup: thread_pool.shutdown(wait=False)
Cleanup ==
    /\ ~pool_shutdown
    /\ pool_shutdown' = TRUE
    /\ UNCHANGED <<monVars, parserVars, sweepVars, cpVars>>
    /\ UNCHANGED <<now, dir_exists, files, file_lock, call, tasks,
                   context_processing_enabled, faults>>

\* the wall clock reaches the next second.  The clock is read in one place,
\* the timestamp of line 89, so only the seconds that pass before the caller
\* comes to read it are told apart.
Tick ==
    /\ now < MaxClock
    /\ call.pc = "raw_write"
    /\ now' = now + 1
    /\ UNCHANGED <<monVars, parserVars, sweepVars, cpVars>>
    /\ UNCHANGED <<dir_exists, files, file_lock, call, tasks, pool_shutdown,
                   context_processing_enabled, faults>>

----------------------------------------------------------------------------
(* The context processor (context_processor.py): the classification of a   *)
(* chunk.  A chunk's text is the set of the words in it.                   *)

\* the words a chunk is made of: keywords as they are listed, in another
\* case, or inside a longer word, and a word that is no keyword
Words == {"ERROR", "urgent", "prefix", "issue", "Customer", "update", "setup", "hello"}

ChunkTexts == SUBSET Words

\* str.lower() on a word
LowerWord(w) == CASE w = "ERROR" -> "error"
                  [] w = "Customer" -> "customer"
                  [] OTHER -> w

\* content.lower()
Lower(text) == {LowerWord(w) : w \in text}

\* the longer words that hold a keyword
Inside == {<<"fix", "prefix">>, <<"date", "update">>}

\* keyword in content_lower: the keyword is a word of the text or a part of one
Occurs(k, text) == \E w \in text : k = w \/ <<k, w>> \in Inside

\* the keyword lists of _classify_content_type
KeywordsOf(type) ==
    CASE type = "error_information" -> {"error", "exception", "failed", "failure"}
      [] type = "critical_information" -> {"critical", "urgent", "emergency"}
      [] type = "resolution_information" -> {"resolution", "solution", "fix", "resolved"}
      [] type = "problem_description" -> {"symptom", "issue", "problem"}
      [] type = "customer_information" -> {"customer", "client", "user"}
      [] type = "temporal_information" -> {"timeline", "schedule", "date", "time"}
      [] type = "configuration_information" -> {"configuration", "settings", "setup"}
      [] OTHER -> {}

\* any(keyword in content_lower for keyword in [...])
AnyOf(type, content_lower) == \E k \in KeywordsOf(type) : Occurs(k, content_lower)

\* _classify_content_type testing for the critical keywords first
classify_content_type_CriticalFirst(content) ==
    LET content_lower == Lower(content) IN
    IF AnyOf("critical_information", content_lower) THEN "critical_information"
    ELSE IF AnyOf("error_information", content_lower) THEN "error_information"
    ELSE IF AnyOf("resolution_information", content_lower) THEN "resolution_information"
    ELSE IF AnyOf("problem_description", content_lower) THEN "problem_description"
    ELSE IF AnyOf("customer_information", content_lower) THEN "customer_information"
    ELSE IF AnyOf("temporal_information", content_lower) THEN "temporal_information"
    ELSE IF AnyOf("configuration_information", content_lower)
         THEN "configuration_information"
    ELSE "general_information"

\* _classify_content_type 232-259
classify_content_type(content) ==
    LET content_lower == Lower(content) IN
    IF AnyOf("error_information", content_lower) THEN "error_information"
    ELSE IF AnyOf("critical_information", content_lower) THEN "critical_information"
    ELSE IF AnyOf("resolution_information", content_lower) THEN "resolution_information"
    ELSE IF AnyOf("problem_description", content_lower) THEN "problem_description"
    ELSE IF AnyOf("customer_information", content_lower) THEN "customer_information"
    ELSE IF AnyOf("temporal_information", content_lower) THEN "temporal_information"
    ELSE IF AnyOf("configuration_information", content_lower)
         THEN "configuration_information"
    ELSE "general_information"

ChunkFrame(pc, text, content_type) ==
    [pc |-> pc, text |-> text, content_type |-> content_type]

ChunkIdle == ChunkFrame("idle", {}, "none")

\* a call of _classify_content_type
ClassifyContentType ==
    /\ chunk.pc = "classify"
    /\ chunk' = [chunk EXCEPT !.pc = "done",
                              !.content_type = classify_content_type(chunk.text)]
    /\ UNCHANGED <<fmVars, monVars, parserVars, sweepVars>>
    /\ UNCHANGED <<langchain_available, performance_mode, thread_pool, analyses,
                   enrichers, scan>>

ClassifyNext == ClassifyContentType

----------------------------------------------------------------------------
(* The context processor: process_case_content, called by the enrichment   *)
(* tasks of the FileManager, and the work of its own thread pool.  A wait  *)
(* that expires takes its timeout; the time of everything else is not      *)
(* counted.                                                                *)

MaxChunks == 6

context_processing_timeout == 30
chunk_timeout == 5
max_workers == 2

NoError == "none"

\* the text of chunk i of a document
ChunkText(i) == CASE i % 3 = 0 -> {"ERROR"}
                  [] i % 3 = 1 -> {"Customer", "setup"}
                  [] OTHER -> {"hello"}

\* text_splitter.split_documents: a content is the chunks it is cut into
Document(n) == [i \in 1..n |-> ChunkText(i - 1)]

Documents == {Document(n) : n \in {1, 2, MaxChunks}}

\* _analyze_chunk 193-230
analyze_chunk(chunk_content, chunk_id) ==
    [chunk_id |-> chunk_id, content_type |-> classify_content_type(chunk_content)]

\* the entry of result['chunks'] for chunk i (164-169, 177-182)
ChunkInfo(i, content, analysis) ==
    [chunk_id |-> i, content |-> content, analysis |-> analysis]

\* the loop of 175-182: every chunk analysed in the thread of the document
Sequential(chunks) ==
    [k \in 1..Len(chunks) |-> ChunkInfo(k - 1, chunks[k], analyze_chunk(chunks[k], k - 1))]

\* the work a pool thread takes from the queue: _process_with_timeout for
\* the run-th analysis of a task's content, or _analyze_chunk for chunk i
DocWork(f, run) == [kind |-> "doc", of |-> f, run |-> run, i |-> 0 - 1]
ChunkWork(f, run, i) == [kind |-> "chunk", of |-> f, run |-> run, i |-> i]

NoAnalysis == [chunk_id |-> 0 - 1, content_type |-> "none"]
NotDone == [done |-> FALSE, analysis |-> NoAnalysis]
Done(analysis) == [done |-> TRUE, analysis |-> analysis]

\* the frame of _process_with_timeout: its chunk futures, how many of them
\* it has waited for, result['chunks'], the chunks logged as timed out and
\* the seconds spent in waits that expired
Analysis(run, pc) ==
    [run |-> run, pc |-> pc, futures |-> << >>, i |-> 0, chunks |-> << >>,
     late |-> {}, spent |-> 0]

\* the keys of _extract_key_information 406-413
KeyInformation ==
    {"case_identifiers", "error_messages", "timestamps", "system_information",
     "customer_impact", "resolution_steps"}

\* the result of process_case_content: 104-114 updated at 125
Result(chunks, key_information, error) ==
    [chunks |-> chunks, key_information |-> key_information, error |-> error]

\* 104-114 with error set (118, 128): chunks and key_information as created
ErrorResult(error) == Result(<< >>, {}, error)

\* the frame of _process_enhanced_content: content is the capture as the
\* splitter cuts it, phase the call of process_case_content it is in (its
\* own at 184 or the one of generate_support_context_protocol at 202),
\* result the result of that call, as created at 104-114 until it returns
Enricher(content) ==
    [pc |-> "call", phase |-> "enrich", content |-> content,
     result |-> ErrorResult(NoError), protocol |-> "none"]

\* the capture an enrichment task works on
Captured == [txt |-> 1, len |-> 1]

\* process_case_content 103-122: without LangChain an error-tagged result,
\* else _process_with_timeout is submitted to the pool
ProcessCaseContent(f) ==
    /\ enrichers[f].pc = "call"
    /\ IF ~langchain_available
       THEN /\ enrichers' = [enrichers EXCEPT
                               ![f].pc = "got",
                               ![f].result = ErrorResult("LangChain not available")]
            /\ UNCHANGED <<thread_pool, analyses>>
       ELSE /\ thread_pool' = [thread_pool EXCEPT
                                 !.queue = Append(@, DocWork(f, analyses[f].run + 1))]
            /\ analyses' = [analyses EXCEPT
                              ![f] = Analysis(analyses[f].run + 1, "submitted")]
            /\ enrichers' = [enrichers EXCEPT ![f].pc = "wait"]
    /\ UNCHANGED <<fmVars, monVars, parserVars, sweepVars>>
    /\ UNCHANGED <<langchain_available, performance_mode, chunk, scan>>

\* the work waiting in the pool's queue
Queued == {thread_pool.queue[k] : k \in DOMAIN thread_pool.queue}

\* ThreadPoolExecutor(max_workers=2): a thread is free to take work w when
\* fewer than max_workers are busy and w is the oldest in the queue; a
\* thread is counted busy while it runs _process_with_timeout
Free(w) ==
    /\ thread_pool.queue # << >>
    /\ Head(thread_pool.queue) = w
    /\ Cardinality(thread_pool.running) < max_workers

\* _process_with_timeout 140-159 and 173-191: with performance_mode and more
\* than one chunk, _analyze_chunk is submitted for every chunk to the pool
\* the document's own thread came from; else the chunks are analysed here
\* and the result returned
ProcessWithTimeout(f) ==
    LET a == analyses[f]
        chunks == enrichers[f].content
    IN  /\ a.pc = "submitted"
        /\ Free(DocWork(f, a.run))
        /\ IF performance_mode /\ Len(chunks) > 1
           THEN /\ analyses' = [analyses EXCEPT
                                  ![f].pc = "collect",
                                  ![f].futures = [k \in 1..Len(chunks) |-> NotDone]]
                /\ thread_pool' =
                     [queue |-> Tail(thread_pool.queue)
                                  \o [k \in 1..Len(chunks) |-> ChunkWork(f, a.run, k - 1)],
                      running |-> thread_pool.running \cup {DocWork(f, a.run)}]
           ELSE /\ analyses' = [analyses EXCEPT
                                  ![f].pc = "done",
                                  ![f].chunks = Sequential(chunks)]
                /\ thread_pool' = [thread_pool EXCEPT !.queue = Tail(@)]
        /\ UNCHANGED <<fmVars, monVars, parserVars, sweepVars>>
        /\ UNCHANGED <<langchain_available, performance_mode, enrichers, chunk, scan>>

\* a free pool thread runs _analyze_chunk and sets the future's result; the
\* futures of an analysis that has returned are held by nobody
AnalyzeChunk(w) ==
    /\ w.kind = "chunk"
    /\ Free(w)
    /\ thread_pool' = [thread_pool EXCEPT !.queue = Tail(@)]
    /\ analyses' =
         IF analyses[w.of].run = w.run /\ analyses[w.of].pc = "collect"
         THEN [analyses EXCEPT
                 ![w.of].futures[w.i + 1] =
                     Done(analyze_chunk(enrichers[w.of].content[w.i + 1], w.i))]
         ELSE analyses
    /\ UNCHANGED <<fmVars, monVars, parserVars, sweepVars>>
    /\ UNCHANGED <<langchain_available, performance_mode, enrichers, chunk, scan>>

\* result['chunks'].append putting the entry in front
Collected_InFront(chunks, info) == <<info>> \o chunks

\* result['chunks'].append (164)
Collected(chunks, info) == Append(chunks, info)

\* 161-169: future.result(timeout=5) of the next future finds its result
CollectChunk(f) ==
    LET a == analyses[f] IN
    /\ a.pc = "collect"
    /\ a.i < Len(a.futures)
    /\ a.futures[a.i + 1].done
    /\ analyses' = [analyses EXCEPT
                      ![f].i = a.i + 1,
                      ![f].chunks =
                          Collected(a.chunks,
                                    ChunkInfo(a.i, enrichers[f].content[a.i + 1],
                                              a.futures[a.i + 1].analysis))]
    /\ UNCHANGED <<fmVars, monVars, parserVars, sweepVars>>
    /\ UNCHANGED <<langchain_available, performance_mode, thread_pool, enrichers,
                   chunk, scan>>

\* 163, 170-172: the wait for the next future expires after 5 seconds; the
\* chunk is logged and left out, its task stays where it is
ChunkTimeout(f) ==
    LET a == analyses[f] IN
    /\ a.pc = "collect"
    /\ a.i < Len(a.futures)
    /\ ~a.futures[a.i + 1].done
    /\ analyses' = [analyses EXCEPT
                      ![f].i = a.i + 1,
                      ![f].late = a.late \cup {a.i},
                      ![f].spent = a.spent + chunk_timeout]
    /\ UNCHANGED <<fmVars, monVars, parserVars, sweepVars>>
    /\ UNCHANGED <<langchain_available, performance_mode, thread_pool, enrichers,
                   chunk, scan>>

\* 185-191 after the loop of 161: summary, key information, tags, return;
\* the list of futures goes with the frame
Summarise(f) ==
    LET a == analyses[f] IN
    /\ a.pc = "collect"
    /\ a.i = Len(a.futures)
    /\ analyses' = [analyses EXCEPT ![f].pc = "done", ![f].futures = << >>, ![f].i = 0]
    /\ thread_pool' = [thread_pool EXCEPT !.running = @ \ {DocWork(f, a.run)}]
    /\ UNCHANGED <<fmVars, monVars, parserVars, sweepVars>>
    /\ UNCHANGED <<langchain_available, performance_mode, enrichers, chunk, scan>>

\* process_case_content 125-126, 138: the result arrives within the timeout
Receive(f) ==
    /\ enrichers[f].pc = "wait"
    /\ analyses[f].pc = "done"
    /\ analyses[f].spent < context_processing_timeout
    /\ enrichers' = [enrichers EXCEPT
                       ![f].pc = "got",
                       ![f].result = Result(analyses[f].chunks, KeyInformation, NoError)]
    /\ UNCHANGED <<fmVars, monVars, parserVars, sweepVars>>
    /\ UNCHANGED <<langchain_available, performance_mode, thread_pool, analyses,
                   chunk, scan>>

\* process_case_content 125-130: future.result(timeout=...) expires; the
\* result as created comes back with error set, the work goes on in the pool
OuterTimeout(f) ==
    /\ enrichers[f].pc = "wait"
    /\ analyses[f].spent >= context_processing_timeout
    /\ enrichers' = [enrichers EXCEPT
                       ![f].pc = "got",
                       ![f].result = ErrorResult("Processing timed out")]
    /\ UNCHANGED <<fmVars, monVars, parserVars, sweepVars>>
    /\ UNCHANGED <<langchain_available, performance_mode, thread_pool, analyses,
                   chunk, scan>>

\* enhanced_result.get('error') never true
Tagged_Never(result) == FALSE

\* enhanced_result.get('error') (file_manager.py 187)
Tagged(result) == result.error # NoError

\* _process_enhanced_content 184-199: an error-tagged result ends the task,
\* else the enhanced metadata is written and
\* generate_support_context_protocol called, which analyses the content
\* again (context_processor.py 569)
EnrichCheck(f) ==
    /\ enrichers[f].pc = "got"
    /\ enrichers[f].phase = "enrich"
    /\ IF Tagged(enrichers[f].result)
       THEN /\ enrichers' = [enrichers EXCEPT ![f].pc = "end"]
            /\ UNCHANGED files
       ELSE /\ enrichers' = [enrichers EXCEPT ![f].pc = "call",
                                               ![f].phase = "protocol",
                                               ![f].result = ErrorResult(NoError)]
            /\ files' = Put(files, Companion(f, "enhanced_metadata"),
                            Data("enhanced_metadata", Captured, TRUE))
    /\ UNCHANGED <<now, dir_exists, file_lock, call, tasks, pool_shutdown,
                   context_processing_enabled, faults>>
    /\ UNCHANGED <<monVars, parserVars, sweepVars>>
    /\ UNCHANGED <<langchain_available, performance_mode, thread_pool, analyses,
                   chunk, scan>>

\* generate_support_context_protocol 572-605 on the result of 569: the
\* record is built from processed_result['key_information'][...]; a missing
\* key raises KeyError
Protocol(result) ==
    IF "case_identifiers" \in result.key_information THEN "record" ELSE "raised"

\* _process_enhanced_content 202-229: with the protocol record the protocol
\* and the condensed text are written; an exception ends the task (228)
EnrichProtocol(f) ==
    /\ enrichers[f].pc = "got"
    /\ enrichers[f].phase = "protocol"
    /\ enrichers' = [enrichers EXCEPT ![f].pc = "end",
                                      ![f].protocol = Protocol(enrichers[f].result)]
    /\ files' = IF Protocol(enrichers[f].result) = "record"
                THEN Put(Put(files, Companion(f, "context_protocol"),
                             Data("context_protocol", Captured, TRUE)),
                         Companion(f, "condensed"), Data("condensed", Captured, TRUE))
                ELSE files
    /\ UNCHANGED <<now, dir_exists, file_lock, call, tasks, pool_shutdown,
                   context_processing_enabled, faults>>
    /\ UNCHANGED <<monVars, parserVars, sweepVars>>
    /\ UNCHANGED <<langchain_available, performance_mode, thread_pool, analyses,
                   chunk, scan>>

ProcessorNext ==
    \/ \E f \in Filenames : ProcessCaseContent(f)
    \/ \E f \in Filenames : ProcessWithTimeout(f)
    \/ \E w \in Queued : AnalyzeChunk(w)
    \/ \E f \in Filenames : CollectChunk(f)
    \/ \E f \in Filenames : ChunkTimeout(f)
    \/ \E f \in Filenames : Summarise(f)
    \/ \E f \in Filenames : Receive(f)
    \/ \E f \in Filenames : OuterTimeout(f)
    \/ \E f \in Filenames : EnrichCheck(f)
    \/ \E f \in Filenames : EnrichProtocol(f)

----------------------------------------------------------------------------
(* The retention sweep: cleanup_old_files.  sweep.pc is the statement the  *)
(* call is about to run; old holds the files whose modification time is    *)
(* before the cutoff the call computes at line 321.                        *)

SweepFrame(pc, before, todo, files_removed, result, count) ==
    [pc |-> pc, before |-> before, todo |-> todo,
     files_removed |-> files_removed, result |-> result, count |-> count]

SweepIdle == SweepFrame("idle", EmptyDir, {}, 0, "none", 0)

\* self.output_dir.glob("*.txt")
Glob(fs) == {p \in DOMAIN fs : p.ext = ".txt"}

\* file_path.with_suffix('.json').with_name(file_path.stem + '_metadata.json'):
\* for a raw capture the file save_with_metadata writes beside it; for
\* X_condensed.txt it is X_condensed_metadata.json, which nothing writes
MetadataFile(p) == IF p.tag = "" THEN Companion(p, "metadata") ELSE NoPath

\* cleanup_old_files 318-322: the directory test, the cutoff, the counter
\* and the listing
CleanupOldFiles ==
    /\ sweep.pc = "idle"
    /\ sweep' = IF ~dir_exists
                THEN SweepFrame("done", files, {}, 0, "nodir", 0)
                ELSE SweepFrame("visit", files, Glob(files), 0, "none", 0)
    /\ UNCHANGED <<fmVars, monVars, parserVars, old, cpVars>>

\* cleanup_old_files 324-334, one turn of the loop: a file older than the
\* cutoff is unlinked and counted, and its metadata file, if there is one,
\* is unlinked too.  An exception of stat or unlink goes to the except
\* clause 338-341, which returns 0.
SweepVisit(p) ==
    /\ sweep.pc = "visit"
    /\ p \in sweep.todo
    /\ \/ /\ files' = IF p \in old
                      THEN IF Exists(files, MetadataFile(p))
                           THEN Remove(Remove(files, p), MetadataFile(p))
                           ELSE Remove(files, p)
                      ELSE files
          /\ sweep' = [sweep EXCEPT
                         !.todo = @ \ {p},
                         !.files_removed = IF p \in old THEN @ + 1 ELSE @]
          /\ UNCHANGED faults
       \/ /\ faults < MaxFaults
          /\ faults' = faults + 1
          /\ \/ UNCHANGED files
             \/ /\ p \in old
                /\ Exists(files, MetadataFile(p))
                /\ files' = Remove(files, p)
          /\ sweep' = [sweep EXCEPT !.pc = "done", !.result = "error", !.count = 0]
    /\ UNCHANGED <<now, dir_exists, file_lock, call, tasks, pool_shutdown,
                   context_processing_enabled>>
    /\ UNCHANGED <<monVars, parserVars, old, cpVars>>

\* cleanup_old_files 336: return files_removed, f"Removed ..."
SweepReturn ==
    /\ sweep.pc = "visit"
    /\ sweep.todo = {}
    /\ sweep' = [sweep EXCEPT !.pc = "done", !.result = "ok",
                              !.count = sweep.files_removed]
    /\ UNCHANGED <<fmVars, monVars, parserVars, old, cpVars>>

\* what a directory can hold of the captures of two earlier sessions: the
\* raw files, their metadata files and the artifacts of the enrichment
SweepPaths ==
    {Companion(f, tag) : f \in Filenames,
                         tag \in {"", "metadata", "enhanced_metadata", "condensed"}}

KindOf(p) == IF p.tag = "" THEN "raw" ELSE p.tag

SweepDirs ==
    {[p \in S |-> Data(KindOf(p), Earlier, TRUE)] : S \in SUBSET SweepPaths}

SweepNext ==
    \/ CleanupOldFiles
    \/ \E p \in SweepPaths : SweepVisit(p)
    \/ SweepReturn

----------------------------------------------------------------------------
(* The batch analysis: analyze_existing_files.  scan.pc is the statement   *)
(* the call is about to run, scan.before the directory as the call found   *)
(* it.                                                                     *)

MaxRuns == 2

ScanFrame(pc, run, todo, before, processed_files, failed_files) ==
    [pc |-> pc, run |-> run, todo |-> todo, before |-> before,
     processed_files |-> processed_files, failed_files |-> failed_files]

ScanIdle == ScanFrame("idle", 0, {}, EmptyDir, 0, 0)

\* file_path.stem + '_enhanced_metadata.json', file_path.stem + '_condensed.txt'
StemCompanion(p, tag) ==
    [p EXCEPT !.tag = IF p.tag = "" THEN tag ELSE p.tag \o "_" \o tag,
              !.ext = IF tag = "condensed" THEN ".txt" ELSE ".json"]

\* list_case_files 254-274: the *.txt files of the directory, none of which
\* ends in _metadata.json
list_case_files(fs) ==
    IF ~dir_exists THEN {}
    ELSE {p \in Glob(fs) :
            ~(p.ext = ".json" /\ p.tag \in {"metadata", "enhanced_metadata"})}

\* analyze_existing_files 429-445
AnalyzeExistingFiles ==
    /\ scan.pc \in {"idle", "done"}
    /\ scan.run < MaxRuns
    /\ scan' = ScanFrame("visit", scan.run + 1, list_case_files(files), files, 0, 0)
    /\ UNCHANGED <<fmVars, monVars, parserVars, sweepVars>>
    /\ UNCHANGED <<langchain_available, performance_mode, thread_pool, analyses,
                   enrichers, chunk>>

\* analyze_existing_files 447-510, one turn of the loop: a file with an
\* enhanced metadata file beside it is counted and passed over; for any
\* other the protocol is generated and written under the file's stem with
\* _enhanced_metadata.json, the condensed text with _condensed.txt; when
\* generate_support_context_protocol raises, the file is counted as failed
ScanVisit(p) ==
    /\ scan.pc = "visit"
    /\ p \in scan.todo
    /\ IF Exists(files, StemCompanion(p, "enhanced_metadata"))
       THEN /\ scan' = [scan EXCEPT !.todo = @ \ {p}, !.processed_files = @ + 1]
            /\ UNCHANGED files
       ELSE IF Protocol(IF langchain_available
                        THEN Result(<< >>, KeyInformation, NoError)
                        ELSE ErrorResult("LangChain not available")) = "raised"
       THEN /\ scan' = [scan EXCEPT !.todo = @ \ {p}, !.failed_files = @ + 1]
            /\ UNCHANGED files
       ELSE /\ scan' = [scan EXCEPT !.todo = @ \ {p}, !.processed_files = @ + 1]
            /\ files' = Put(Put(files, StemCompanion(p, "enhanced_metadata"),
                                Data("context_protocol", Earlier, TRUE)),
                            StemCompanion(p, "condensed"),
                            Data("condensed", Earlier, TRUE))
    /\ UNCHANGED <<now, dir_exists, file_lock, call, tasks, pool_shutdown,
                   context_processing_enabled, faults>>
    /\ UNCHANGED <<monVars, parserVars, sweepVars>>
    /\ UNCHANGED <<langchain_available, performance_mode, thread_pool, analyses,
                   enrichers, chunk>>

\* analyze_existing_files 512-516: the average and the return
ScanReturn ==
    /\ scan.pc = "visit"
    /\ scan.todo = {}
    /\ scan' = [scan EXCEPT !.pc = "done"]
    /\ UNCHANGED <<fmVars, monVars, parserVars, sweepVars>>
    /\ UNCHANGED <<langchain_available, performance_mode, thread_pool, analyses,
                   enrichers, chunk>>

AnalyzeNext ==
    \/ AnalyzeExistingFiles
    \/ \E p \in scan.todo : ScanVisit(p)
    \/ ScanReturn

IdlePool == [queue |-> << >>, running |-> {}]

ProcessorAtRest ==
    /\ langchain_available = TRUE
    /\ performance_mode = TRUE
    /\ thread_pool = IdlePool
    /\ analyses = << >>
    /\ enrichers = << >>
    /\ chunk = ChunkIdle
    /\ scan = ScanIdle

----------------------------------------------------------------------------
(* The parser (data_parser.py).  A text is a sequence of tokens separated  *)
(* by blanks: the keywords the patterns look for, a word that is none of   *)
(* them, a line break, and runs of digits.  A string is the sequence of    *)
(* its characters.                                                         *)

\* r"(\d{9})" of PATTERNS['icm_id']
IcmDigits == 9
\* r"(\d{13,})" of the four case patterns
CaseDigits == 13

Tok(k, d) == [k |-> k, d |-> d]
Word(k) == Tok(k, << >>)
Run(d) == Tok("digits", d)

Keywords == {"ICM", "Support Request Number:", "Case", "CRI"}

\* digit runs of 8, 9, 13 and 14 digits
Runs ==
    {<<"1","2","3","4","5","6","7","8">>,
     <<"1","2","3","4","5","6","7","8","9">>,
     <<"1","2","3","4","5","6","7","8","9","0","1","2","3">>,
     <<"2","5","0","5","1","6","0","0","2","0","0","0","0","5">>}

Tokens == {Word(k) : k \in Keywords \cup {"text", "\n"}} \cup {Run(d) : d \in Runs}

\* what a caller passes as text: None, or a string ("" is the empty one)
None == [none |-> TRUE, toks |-> << >>]
Str(toks) == [none |-> FALSE, toks |-> toks]
Texts == {None} \cup {Str(t) : t \in UNION {[1..n -> Tokens] : n \in 0..MaxLen}}

\* an identifier or filename that is None
Absent == << >>

IsRun(t, n) == t.k = "digits" /\ Len(t.d) >= n
Least(S) == CHOOSE x \in S : \A y \in S : x <= y

\* re.search of r"ICM.*?(\d{9})": the leftmost ICM that has, further on in
\* its line, nine digits in a row; the group is the first nine of them
IcmRuns(toks, i) ==
    {j \in (i + 1)..Len(toks) :
        /\ IsRun(toks[j], IcmDigits)
        /\ \A m \in (i + 1)..j : toks[m].k # "\n"}
IcmMatches(toks) == {i \in DOMAIN toks : toks[i].k = "ICM" /\ IcmRuns(toks, i) # {}}
SearchIcm(toks) ==
    IF IcmMatches(toks) = {} THEN Absent
    ELSE SubSeq(toks[Least(IcmRuns(toks, Least(IcmMatches(toks))))].d, 1, IcmDigits)

\* re.search of r"<keyword>[:\s#]*(\d{13,})": the leftmost keyword followed,
\* white space and line breaks apart, by a run of 13 or more digits
After(toks, i) ==
    Least({j \in (i + 1)..(Len(toks) + 1) :
              \A m \in (i + 1)..(j - 1) : toks[m].k = "\n"}
          \ {j \in (i + 1)..Len(toks) : toks[j].k = "\n"})
KeywordMatches(toks, kw) ==
    {i \in DOMAIN toks :
        /\ toks[i].k = kw
        /\ After(toks, i) <= Len(toks)
        /\ IsRun(toks[After(toks, i)], CaseDigits)}
SearchKeyword(toks, kw) ==
    IF KeywordMatches(toks, kw) = {} THEN Absent
    ELSE toks[After(toks, Least(KeywordMatches(toks, kw)))].d

\* re.search of r"\b(\d{13,})\b": the leftmost run of 13 or more digits
SimpleMatches(toks) == {i \in DOMAIN toks : IsRun(toks[i], CaseDigits)}
SearchSimple(toks) ==
    IF SimpleMatches(toks) = {} THEN Absent ELSE toks[Least(SimpleMatches(toks))].d

\* extract_case_ids taking any run of 13 or more digits before it looks
\* for the keywords
extract_case_ids_SimpleFirst(text) ==
    IF text.none \/ text.toks = << >>
    THEN [icm_id |-> Absent, case_id |-> Absent]
    ELSE [icm_id |-> SearchIcm(text.toks),
          case_id |->
            IF SearchSimple(text.toks) # Absent
            THEN SearchSimple(text.toks)
            ELSE IF SearchKeyword(text.toks, "Support Request Number:") # Absent
            THEN SearchKeyword(text.toks, "Support Request Number:")
            ELSE IF SearchKeyword(text.toks, "Case") # Absent
            THEN SearchKeyword(text.toks, "Case")
            ELSE SearchKeyword(text.toks, "CRI")]

\* extract_case_ids 25-67
extract_case_ids(text) ==
    IF text.none \/ text.toks = << >>
    THEN [icm_id |-> Absent, case_id |-> Absent]
    ELSE [icm_id |-> SearchIcm(text.toks),
          case_id |->
            IF SearchKeyword(text.toks, "Support Request Number:") # Absent
            THEN SearchKeyword(text.toks, "Support Request Number:")
            ELSE IF SearchKeyword(text.toks, "Case") # Absent
            THEN SearchKeyword(text.toks, "Case")
            ELSE IF SearchKeyword(text.toks, "CRI") # Absent
            THEN SearchKeyword(text.toks, "CRI")
            ELSE SearchSimple(text.toks)]

\* is_valid_case_data asking for both identifiers
is_valid_BothRequired(text) ==
    /\ extract_case_ids(text).icm_id # Absent
    /\ extract_case_ids(text).case_id # Absent

\* is_valid_case_data 69-82
is_valid_case_data(text) ==
    IF text.none \/ text.toks = << >>
    THEN FALSE
    ELSE extract_case_ids(text).icm_id # Absent
         \/ extract_case_ids(text).case_id # Absent

\* generate_filename 95-102 with the identifiers of a text dropped in: the
\* case identifier is lost when both are found
filenameFor_IcmOnly(ids) ==
    IF ids.icm_id # << >>
    THEN <<"I", "C", "M", "_">> \o ids.icm_id \o <<".", "t", "x", "t">>
    ELSE IF ids.case_id # << >>
    THEN <<"C", "a", "s", "e", "_">> \o ids.case_id \o <<".", "t", "x", "t">>
    ELSE Absent

\* generate_filename 95-102 with the two identifiers in the other order
filenameFor_Swapped(ids) ==
    IF ids.icm_id # << >> /\ ids.case_id # << >>
    THEN ids.case_id \o <<"_">> \o ids.icm_id \o <<".", "t", "x", "t">>
    ELSE IF ids.icm_id # << >>
    THEN <<"I", "C", "M", "_">> \o ids.icm_id \o <<".", "t", "x", "t">>
    ELSE IF ids.case_id # << >>
    THEN <<"C", "a", "s", "e", "_">> \o ids.case_id \o <<".", "t", "x", "t">>
    ELSE Absent

\* generate_filename 95-102: the filename of an identifier pair
filenameFor(ids) ==
    IF ids.icm_id # << >> /\ ids.case_id # << >>
    THEN ids.icm_id \o <<"_">> \o ids.case_id \o <<".", "t", "x", "t">>
    ELSE IF ids.icm_id # << >>
    THEN <<"I", "C", "M", "_">> \o ids.icm_id \o <<".", "t", "x", "t">>
    ELSE IF ids.case_id # << >>
    THEN <<"C", "a", "s", "e", "_">> \o ids.case_id \o <<".", "t", "x", "t">>
    ELSE Absent

\* generate_filename 84-102
generate_filename(text) == filenameFor(extract_case_ids(text))

\* a thread that applies the parser to a text
ParserIdle == [pc |-> "idle", text |-> None,
               ids |-> [icm_id |-> Absent, case_id |-> Absent],
               valid |-> FALSE, filename |-> Absent]

ParserInit == parser \in {[ParserIdle EXCEPT !.pc = "extract", !.text = t] : t \in Texts}

ExtractCaseIds ==
    /\ parser.pc = "extract"
    /\ parser' = [parser EXCEPT !.pc = "validate",
                                !.ids = extract_case_ids(parser.text)]
    /\ UNCHANGED <<fmVars, monVars, sweepVars, cpVars>>

IsValidCaseData ==
    /\ parser.pc = "validate"
    /\ parser' = [parser EXCEPT !.pc = "name",
                                !.valid = is_valid_case_data(parser.text)]
    /\ UNCHANGED <<fmVars, monVars, sweepVars, cpVars>>

GenerateFilename ==
    /\ parser.pc = "name"
    /\ parser' = [parser EXCEPT !.pc = "done",
                                !.filename = generate_filename(parser.text)]
    /\ UNCHANGED <<fmVars, monVars, sweepVars, cpVars>>

ParserNext == ExtractCaseIds \/ IsValidCaseData \/ GenerateFilename

----------------------------------------------------------------------------
(* The clipboard monitor (clipboard_monitor.py).                            *)

\* threads that call the monitor: the tray menu's and the signal handler's
Callers == {"ui", "main"}

\* self.monitor_thread = None
NoThread == 0

\* if len(self.content_hash_cache) > 100
CacheLimit == 100

\* self.max_content_length = config.max_file_size_mb * 1024 * 1024
max_content_length == Ceiling

\* what pyperclip.paste() can return: nothing, a short text with an ICM
\* identifier, a short text with no identifier, a long one
NoClip == [txt |-> 0, len |-> 0, text |-> None]
IcmText == Str(<<Word("ICM"), Run(<<"1","2","3","4","5","6","7","8","9">>)>>)
Clips == {[txt |-> 1, len |-> 1, text |-> IcmText],
          [txt |-> 2, len |-> 1, text |-> Str(<<Word("text")>>)],
          [txt |-> 3, len |-> Ceiling + 1, text |-> IcmText]}

\* hash(current_content)
Hash(c) == c.txt

\* the size gate letting everything through
Oversized_Never(c) == FALSE

\* _monitor_loop 96: len(current_content) > self.max_content_length
Oversized(c) == c.len > max_content_length

\* the duplicate check finding nothing
Seen_Never(cache, c) == FALSE

\* the duplicate check finding everything
Seen_Always(cache, c) == TRUE

\* _monitor_loop 102: content_hash in self.content_hash_cache
Seen(cache, c) == Hash(c) \in cache

IdleCaller == [pc |-> "idle", op |-> "none", n |-> 0, result |-> "none"]

\* calls of start_monitoring and stop_monitoring made so far
CallsMade == callers["ui"].n + callers["main"].n

\* what the last step of a worker did with the content it read, if that
\* step was the poll of a changed content or its processing: the thread,
\* the content, whether the poll took it on, the result of the save of
\* _process_clipboard_content ("none" when it made none), the records it
\* gave the callback, and whether it let an exception through
Event(step, k, c, taken, save, delivered, raised) ==
    [step |-> step, worker |-> k, content |-> c, taken |-> taken,
     save |-> save, delivered |-> delivered, raised |-> raised]
NoEvent == Event("none", 0, NoClip, FALSE, "none", << >>, FALSE)
Polled(k, c, taken) == Event("poll", k, c, taken, "none", << >>, FALSE)
\* _get_clipboard_content 128-130: paste() raised while the clipboard held a
\* content, and the worker got None
ReadFailed(k) == Event("fault", k, NoClip, FALSE, "none", << >>, FALSE)

\* a thread on _monitor_loop: the statement it is at and, once it has taken
\* a content on, its current_content
Worker(pc) == [pc |-> pc, content |-> NoClip]

\* Thread.is_alive()
Alive(k) == k \in DOMAIN workers /\ workers[k].pc # "dead"

MonitorInit ==
    /\ monitoring = FALSE
    /\ monitor_thread = NoThread
    /\ workers = << >>
    /\ clipboard = NoClip
    /\ last_content = NoClip
    /\ content_hash_cache = {}
    /\ processed = {}
    /\ event = NoEvent
    /\ callers = [c \in Callers |-> IdleCaller]

Enter(c, op) == [callers EXCEPT ![c].op = op, ![c].n = @ + 1,
                                ![c].result = "none"]
Leave(cs, c, result) == [cs EXCEPT ![c].pc = "idle", ![c].result = result]
Goto(cs, c, pc) == [cs EXCEPT ![c].pc = pc]

\* start_monitoring without its guard: every call goes on to start a thread
StartMonitoring_NoGuard(c) ==
    /\ callers[c].pc = "idle"
    /\ CallsMade < MaxMonitorCalls
    /\ callers' = Goto(Enter(c, "start"), c, "start_set")
    /\ UNCHANGED <<monitoring, monitor_thread, workers, clipboard,
                   last_content, content_hash_cache, processed>>
    /\ event' = NoEvent
    /\ UNCHANGED <<fmVars, parserVars, sweepVars, cpVars>>

\* start_monitoring 55-56: if self.monitoring: return True
StartMonitoring(c) ==
    /\ callers[c].pc = "idle"
    /\ CallsMade < MaxMonitorCalls
    /\ callers' = IF monitoring
                  THEN Leave(Enter(c, "start"), c, "true")
                  ELSE Goto(Enter(c, "start"), c, "start_set")
    /\ UNCHANGED <<monitoring, monitor_thread, workers, clipboard,
                   last_content, content_hash_cache, processed>>
    /\ event' = NoEvent
    /\ UNCHANGED <<fmVars, parserVars, sweepVars, cpVars>>

\* start_monitoring 59: self.monitoring = True
StartSet(c) ==
    /\ callers[c].pc = "start_set"
    /\ monitoring' = TRUE
    /\ callers' = Goto(callers, c, "start_thread")
    /\ UNCHANGED <<monitor_thread, workers, clipboard, last_content,
                   content_hash_cache, processed>>
    /\ event' = NoEvent
    /\ UNCHANGED <<fmVars, parserVars, sweepVars, cpVars>>

\* start_monitoring 60-67: create and start the worker thread, return True;
\* if start() raises, clear the flag and return False
StartThread(c) ==
    /\ callers[c].pc = "start_thread"
    /\ monitor_thread' = Len(workers) + 1
    /\ \/ /\ workers' = Append(workers, Worker("loop"))
          /\ callers' = Leave(callers, c, "true")
          /\ UNCHANGED monitoring
       \/ /\ workers' = Append(workers, Worker("dead"))
          /\ monitoring' = FALSE
          /\ callers' = Leave(callers, c, "false")
    /\ UNCHANGED <<clipboard, last_content, content_hash_cache, processed>>
    /\ event' = NoEvent
    /\ UNCHANGED <<fmVars, parserVars, sweepVars, cpVars>>

\* stop_monitoring 71-72: if not self.monitoring: return
StopMonitoring(c) ==
    /\ callers[c].pc = "idle"
    /\ CallsMade < MaxMonitorCalls
    /\ callers' = IF ~monitoring
                  THEN Leave(Enter(c, "stop"), c, "returned")
                  ELSE Goto(Enter(c, "stop"), c, "stop_clear")
    /\ UNCHANGED <<monitoring, monitor_thread, workers, clipboard,
                   last_content, content_hash_cache, processed>>
    /\ event' = NoEvent
    /\ UNCHANGED <<fmVars, parserVars, sweepVars, cpVars>>

\* stop_monitoring 74: self.monitoring = False
StopClear(c) ==
    /\ callers[c].pc = "stop_clear"
    /\ monitoring' = FALSE
    /\ callers' = Goto(callers, c, "stop_join")
    /\ UNCHANGED <<monitor_thread, workers, clipboard, last_content,
                   content_hash_cache, processed>>
    /\ event' = NoEvent
    /\ UNCHANGED <<fmVars, parserVars, sweepVars, cpVars>>

\* stop_monitoring 75-78: join(timeout=2.0) returns when the thread has ended
\* or when the two seconds are over
StopJoin(c) ==
    /\ callers[c].pc = "stop_join"
    /\ callers' = Leave(callers, c,
                        IF Alive(monitor_thread) THEN "timeout" ELSE "joined")
    /\ UNCHANGED <<monitoring, monitor_thread, workers, clipboard,
                   last_content, content_hash_cache, processed>>
    /\ event' = NoEvent
    /\ UNCHANGED <<fmVars, parserVars, sweepVars, cpVars>>

\* the loop test taking the flag for set
LoopCheck_IgnoresFlag(k) ==
    /\ workers[k].pc = "loop"
    /\ workers' = [workers EXCEPT ![k] = Worker("poll")]
    /\ UNCHANGED <<monitoring, monitor_thread, clipboard, last_content,
                   content_hash_cache, processed, callers>>
    /\ event' = NoEvent
    /\ UNCHANGED <<fmVars, parserVars, sweepVars, cpVars>>

\* _monitor_loop 90: while self.monitoring
LoopCheck(k) ==
    /\ workers[k].pc = "loop"
    /\ workers' = [workers EXCEPT
                      ![k] = Worker(IF monitoring THEN "poll" ELSE "dead")]
    /\ UNCHANGED <<monitoring, monitor_thread, clipboard, last_content,
                   content_hash_cache, processed, callers>>
    /\ event' = NoEvent
    /\ UNCHANGED <<fmVars, parserVars, sweepVars, cpVars>>

\* _monitor_loop 92-102 and 110: read the clipboard (None when paste()
\* raises or returns nothing), compare with last_content, apply the size
\* gate and look the hash up.  An oversized content sends the thread back to
\* the loop test (continue), a known one becomes last_content, a new one is
\* taken on.
Poll(k) ==
    /\ workers[k].pc = "poll"
    /\ \E read \in {clipboard, NoClip} :
         IF read = NoClip \/ read = last_content
         THEN /\ workers' = [workers EXCEPT ![k].pc = "sleep"]
              /\ event' = IF read # clipboard THEN ReadFailed(k) ELSE NoEvent
              /\ UNCHANGED last_content
         ELSE IF Oversized(read)
         THEN /\ workers' = [workers EXCEPT ![k].pc = "loop"]
              /\ event' = Polled(k, read, FALSE)
              /\ UNCHANGED last_content
         ELSE IF Seen(content_hash_cache, read)
         THEN /\ workers' = [workers EXCEPT ![k].pc = "sleep"]
              /\ event' = Polled(k, read, FALSE)
              /\ last_content' = read
         ELSE /\ workers' = [workers EXCEPT ![k].pc = "accept", ![k].content = read]
              /\ event' = Polled(k, read, TRUE)
              /\ UNCHANGED last_content
    /\ UNCHANGED <<monitoring, monitor_thread, clipboard, content_hash_cache,
                   processed, callers>>
    /\ UNCHANGED <<fmVars, parserVars, sweepVars, cpVars>>

\* the cache after line 103 and the size check of 107-108
Added(cache, h) ==
    IF Cardinality(cache \cup {h}) > CacheLimit THEN {} ELSE cache \cup {h}

\* result_data of 172-179, and the one of the except clause (195-202)
Record(success, filename, c, metadata, t) ==
    [success |-> success, message |-> IF success THEN "saved" ELSE "failed",
     filename |-> filename, content |-> c.txt, metadata |-> metadata,
     timestamp |-> t]
ErrorRecord(c, t) ==
    Record(FALSE, Absent, c, [icm_id |-> Absent, case_id |-> Absent], t)

\* self.output_dir / filename for a filename of the parser
PathOf(name) == Path(SubSeq(name, 1, Len(name) - 4), NoTs, "", ".txt")

\* save_enhanced_case_data (context processing enabled) or
\* save_with_metadata, run from call to return with no other thread in
\* between: what it returns and what it leaves in the directory and the
\* pool.  It fails with nothing written, or stores the raw file and then
\* submits the enrichment task, or writes the metadata file.
SaveResults(c, p) ==
    LET stored == Put(files, TargetPath(files, p, now), Data("raw", c, TRUE))
        meta == Companion(p, "metadata")
    IN  {[success |-> FALSE, files |-> files, tasks |-> tasks]}
        \cup
        IF TooLarge(c) THEN {}
        ELSE IF context_processing_enabled
        THEN {IF pool_shutdown
              THEN [success |-> FALSE, files |-> stored, tasks |-> tasks]
              ELSE [success |-> TRUE, files |-> stored,
                    tasks |-> Append(tasks, Task(c, p))]}
        ELSE {[success |-> TRUE,
               files |-> Put(stored, meta, Data("metadata", c, TRUE)),
               tasks |-> tasks],
              [success |-> FALSE,
               files |-> Put(stored, meta, Data("metadata", c, FALSE)),
               tasks |-> tasks]}

\* _process_clipboard_content 138-202: the ways one call can go.  A content
\* with no identifier is dropped.  Otherwise the content is saved and the
\* callback gets the result; if the callback raises, or something before
\* the save does, the except clause gives the callback an error record,
\* and if the callback raises there the exception leaves the function.
Processings(c) ==
    IF ~is_valid_case_data(c.text) \/ generate_filename(c.text) = Absent
    THEN {[save |-> "none", delivered |-> << >>, raised |-> FALSE,
           files |-> files, tasks |-> tasks]}
    ELSE LET name == generate_filename(c.text)
             error == ErrorRecord(c, now)
         IN  {[save |-> "none", delivered |-> <<error>>, raised |-> r,
               files |-> files, tasks |-> tasks] : r \in BOOLEAN}
             \cup
             UNION {LET result == Record(s.success, name, c,
                                         extract_case_ids(c.text), now)
                        save == IF s.success THEN "ok" ELSE "failed"
                    IN  {[save |-> save, delivered |-> <<result>>,
                          raised |-> FALSE, files |-> s.files, tasks |-> s.tasks]}
                        \cup
                        {[save |-> save, delivered |-> <<result, error>>,
                          raised |-> r, files |-> s.files, tasks |-> s.tasks]
                           : r \in BOOLEAN}
                    : s \in SaveResults(c, PathOf(name))}

\* the handler of the loop missing: an exception ends the thread
AfterProcessing_NoHandler(raised) == IF raised THEN "dead" ELSE "sleep"

\* _monitor_loop 113 and 115-117: with or without an exception the thread
\* goes to sleep
AfterProcessing(raised) == "sleep"

\* _monitor_loop 103-110: add the hash, process the content, clear a cache
\* of more than 100 hashes, set last_content; an exception that leaves
\* _process_clipboard_content skips the last two
Accept(k) ==
    /\ workers[k].pc = "accept"
    /\ LET c == workers[k].content IN
       \E o \in Processings(c) :
         /\ files' = o.files
         /\ tasks' = o.tasks
         /\ workers' = [workers EXCEPT ![k] = Worker(AfterProcessing(o.raised))]
         /\ event' = Event("accept", k, c, TRUE, o.save, o.delivered, o.raised)
         /\ IF o.raised
            THEN /\ content_hash_cache' = content_hash_cache \cup {Hash(c)}
                 /\ processed' = processed \cup {c.txt}
                 /\ UNCHANGED last_content
            ELSE /\ content_hash_cache' = Added(content_hash_cache, Hash(c))
                 /\ processed' = IF Added(content_hash_cache, Hash(c)) = {}
                                 THEN {} ELSE processed \cup {c.txt}
                 /\ last_content' = c
    /\ UNCHANGED <<monitoring, monitor_thread, clipboard, callers>>
    /\ UNCHANGED <<now, dir_exists, file_lock, call, pool_shutdown,
                   context_processing_enabled, faults, parserVars, sweepVars, cpVars>>

\* _monitor_loop 113, 117: time.sleep(self.config.polling_interval)
Sleep(k) ==
    /\ workers[k].pc = "sleep"
    /\ workers' = [workers EXCEPT ![k] = Worker("loop")]
    /\ UNCHANGED <<monitoring, monitor_thread, clipboard, last_content,
                   content_hash_cache, processed, callers>>
    /\ event' = NoEvent
    /\ UNCHANGED <<fmVars, parserVars, sweepVars, cpVars>>

\* the user copies something else
Copy(x) ==
    /\ x # clipboard
    /\ clipboard' = x
    /\ UNCHANGED <<monitoring, monitor_thread, workers, last_content,
                   content_hash_cache, processed, callers>>
    /\ event' = NoEvent
    /\ UNCHANGED <<fmVars, parserVars, sweepVars, cpVars>>

MonitorNext ==
    \/ \E c \in Callers : StartMonitoring(c)
    \/ \E c \in Callers : StartSet(c)
    \/ \E c \in Callers : StartThread(c)
    \/ \E c \in Callers : StopMonitoring(c)
    \/ \E c \in Callers : StopClear(c)
    \/ \E c \in Callers : StopJoin(c)
    \/ \E k \in DOMAIN workers : LoopCheck(k)
    \/ \E k \in DOMAIN workers : Poll(k)
    \/ \E k \in DOMAIN workers : Accept(k)
    \/ \E k \in DOMAIN workers : Sleep(k)
    \/ \E x \in Clips \cup {NoClip} : Copy(x)

\* the output directory as a session finds it: absent, empty, or holding
\* the raw file of an earlier session's capture
InitialDirs ==
    {[exists |-> FALSE, files |-> EmptyDir],
     [exists |-> TRUE, files |-> EmptyDir],
     [exists |-> TRUE,
      files |-> Put(EmptyDir, Path("ICM_1", NoTs, "", ".txt"),
                    Data("raw", Earlier, TRUE))]}

\* FileManager.__init__ (32-45)
FileManagerInit ==
    /\ now = 0
    /\ \E d \in InitialDirs : dir_exists = d.exists /\ files = d.files
    /\ file_lock = Unlocked
    /\ call = Frame(0, "none", NoContent, NoPath, "idle", "none")
    /\ tasks = << >>
    /\ pool_shutdown = FALSE
    /\ context_processing_enabled \in BOOLEAN
    /\ faults = 0

SweepAtRest == old = {} /\ sweep = SweepIdle

Init == FileManagerInit /\ MonitorInit /\ parser = ParserIdle /\ SweepAtRest /\ ProcessorAtRest

Next ==
    \/ \E op \in Ops, c \in ContentsOf(call.n + 1), f \in Filenames : Call(op, c, f)
    \/ EnsureOutputDirectory
    \/ EnsureExit
    \/ RawWrite
    \/ RawReplace
    \/ MetaOpen
    \/ MetaWrite
    \/ Submit
    \/ \E i \in DOMAIN tasks : TaskStart(i)
    \/ \E i \in DOMAIN tasks : TaskAnalyze(i)
    \/ \E i \in DOMAIN tasks : TaskWrite(i)
    \/ \E i \in DOMAIN tasks : TaskReplace(i)
    \/ Cleanup
    \/ Tick

Spec == Init /\ [][Next]_vars

\* the monitor over a FileManager whose directory exists and is empty
MonitorSpecInit ==
    /\ Init
    /\ dir_exists
    /\ files = EmptyDir
    /\ context_processing_enabled

MonitorSpec == MonitorSpecInit /\ [][MonitorNext]_vars

\* the monitor driven by one thread, the tray menu's: its calls come one
\* after the other
WorkerNext ==
    \/ StartMonitoring("ui")
    \/ StartSet("ui")
    \/ StartThread("ui")
    \/ StopMonitoring("ui")
    \/ StopClear("ui")
    \/ StopJoin("ui")
    \/ \E k \in DOMAIN workers : LoopCheck(k)
    \/ \E k \in DOMAIN workers : Poll(k)
    \/ \E k \in DOMAIN workers : Accept(k)
    \/ \E k \in DOMAIN workers : Sleep(k)
    \/ \E x \in Clips \cup {NoClip} : Copy(x)

WorkerSpec == MonitorSpecInit /\ [][WorkerNext]_vars

\* the threads the calls can have created: each call of start_monitoring
\* creates at most one
WorkerIds == 1..MaxMonitorCalls

\* a pass of _monitor_loop by thread k
WorkerStep(k) ==
    /\ k \in DOMAIN workers
    /\ LoopCheck(k) \/ Poll(k) \/ Accept(k) \/ Sleep(k)

\* a started thread that is not at its end gets to run
WorkerLiveSpec == WorkerSpec /\ \A k \in WorkerIds : WF_vars(WorkerStep(k))

\* the hashes of the 100 contents, none with an identifier, that the
\* monitor has taken on so far in a session
EarlierHashes == 101..(100 + CacheLimit)
EarlierClip == [txt |-> 100 + CacheLimit, len |-> 1, text |-> Str(<<Word("text")>>)]

\* the monitor late in a session: 100 contents taken on, the last of them
\* still in the clipboard, the worker stopped and joined
FullCacheInit ==
    /\ FileManagerInit
    /\ dir_exists
    /\ files = EmptyDir
    /\ context_processing_enabled
    /\ parser = ParserIdle
    /\ SweepAtRest /\ ProcessorAtRest
    /\ monitoring = FALSE
    /\ monitor_thread = 1
    /\ workers = <<Worker("dead")>>
    /\ clipboard = EarlierClip
    /\ last_content = EarlierClip
    /\ content_hash_cache = EarlierHashes
    /\ processed = EarlierHashes
    /\ event = NoEvent
    /\ callers = [c \in Callers |-> IdleCaller]

FullCacheSpec == FullCacheInit /\ [][WorkerNext]_vars

\* the parser given a text, beside a FileManager and a monitor at rest
ParserSpecInit ==
    /\ FileManagerInit
    /\ dir_exists
    /\ files = EmptyDir
    /\ context_processing_enabled
    /\ MonitorInit
    /\ ParserInit
    /\ SweepAtRest /\ ProcessorAtRest

ParserSpec == ParserSpecInit /\ [][ParserNext]_vars

\* a call of cleanup_old_files on a directory that earlier sessions filled,
\* with nothing else running
SweepSpecInit ==
    /\ now = 0
    /\ dir_exists \in BOOLEAN
    /\ files \in (IF dir_exists THEN SweepDirs ELSE {EmptyDir})
    /\ file_lock = Unlocked
    /\ call = Frame(0, "none", NoContent, NoPath, "idle", "none")
    /\ tasks = << >>
    /\ pool_shutdown = FALSE
    /\ context_processing_enabled = TRUE
    /\ faults = 0
    /\ MonitorInit
    /\ parser = ParserIdle
    /\ old \in SUBSET (DOMAIN files)
    /\ sweep = SweepIdle
    /\ ProcessorAtRest

SweepSpec == SweepSpecInit /\ [][SweepNext]_vars

\* _classify_content_type given the text of a chunk, with nothing else running
ClassifySpecInit ==
    /\ FileManagerInit
    /\ dir_exists
    /\ files = EmptyDir
    /\ context_processing_enabled
    /\ MonitorInit
    /\ parser = ParserIdle
    /\ SweepAtRest
    /\ langchain_available = TRUE
    /\ performance_mode = TRUE
    /\ thread_pool = IdlePool
    /\ analyses = << >>
    /\ enrichers = << >>
    /\ chunk \in {ChunkFrame("classify", t, "none") : t \in ChunkTexts}
    /\ scan = ScanIdle

ClassifySpec == ClassifySpecInit /\ [][ClassifyNext]_vars

\* two enrichment tasks, each with the capture it was submitted for and at
\* most one of the captures a long one, about to call process_case_content
\* on the processor they share
ProcessorSpecInit ==
    /\ now = 0
    /\ dir_exists = TRUE
    /\ files = [p \in Filenames |-> Data("raw", Captured, TRUE)]
    /\ file_lock = Unlocked
    /\ call = Frame(0, "none", NoContent, NoPath, "idle", "none")
    /\ tasks = << >>
    /\ pool_shutdown = FALSE
    /\ context_processing_enabled = TRUE
    /\ faults = 0
    /\ MonitorInit
    /\ parser = ParserIdle
    /\ SweepAtRest
    /\ langchain_available \in BOOLEAN
    /\ performance_mode \in BOOLEAN
    /\ thread_pool = IdlePool
    /\ analyses = [f \in Filenames |-> Analysis(0, "none")]
    /\ enrichers \in [Filenames -> {Enricher(d) : d \in Documents}]
    /\ \E f \in Filenames : Len(enrichers[f].content) < MaxChunks
    /\ chunk = ChunkIdle
    /\ scan = ScanIdle

ProcessorSpec == ProcessorSpecInit /\ [][ProcessorNext]_vars

\* calls of analyze_existing_files, one after the other, on a directory
\* that earlier sessions filled, with nothing else running
AnalyzeSpecInit ==
    /\ now = 0
    /\ dir_exists \in BOOLEAN
    /\ files \in (IF dir_exists THEN SweepDirs ELSE {EmptyDir})
    /\ file_lock = Unlocked
    /\ call = Frame(0, "none", NoContent, NoPath, "idle", "none")
    /\ tasks = << >>
    /\ pool_shutdown = FALSE
    /\ context_processing_enabled = TRUE
    /\ faults = 0
    /\ MonitorInit
    /\ parser = ParserIdle
    /\ SweepAtRest
    /\ langchain_available \in BOOLEAN
    /\ performance_mode = TRUE
    /\ thread_pool = IdlePool
    /\ analyses = << >>
    /\ enrichers = << >>
    /\ chunk = ChunkIdle
    /\ scan = ScanIdle

AnalyzeSpec == AnalyzeSpecInit /\ [][AnalyzeNext]_vars

----------------------------------------------------------------------------
(* The claims. *)

\* the step of a save call that renames the temp file to the raw file
RawStored == call.pc = "raw_replace" /\ call'.success

\* C1: every successful save_case_data adds one raw file to the directory
\* and leaves the raw files written before it as they were.
C1_RawFilesNeverOverwritten ==
    [][RawStored =>
         /\ Cardinality(RawFiles(files')) = Cardinality(RawFiles(files)) + 1
         /\ \A p \in RawFiles(files) : files'[p] = files[p]]_vars

\* C2: a save under a filename that already exists succeeds, leaves the file
\* of that name with the content it had, and stores the new content under the
\* filename's stem with the timestamp of the save appended.
C2_DuplicateSaveKeepsBoth ==
    [][(RawStored /\ Exists(files, call.filename)) =>
         /\ Exists(files', call.filename)
         /\ files'[call.filename] = files[call.filename]
         /\ call.file_path # call.filename
         /\ call.file_path = Timestamped(call.filename, now)
         /\ Exists(files', call.file_path)
         /\ files'[call.file_path] = Data("raw", call.content, TRUE)
         /\ (call.op = "save_case_data" =>
                call'.pc = "idle" /\ call'.result = "ok")]_vars

\* two saves of this session under one filename have returned success: the
\* first content is under the filename, the second under the suffixed name
C2_Witness ==
    /\ ReturnedOk
    /\ call.op = "save_case_data"
    /\ call.n = 2
    /\ call.file_path = Timestamped(call.filename, now)
    /\ Exists(files, call.filename)
    /\ Exists(files, call.file_path)
    /\ files[call.filename] = Data("raw", [txt |-> 1], TRUE)
    /\ files[call.file_path] = Data("raw", [txt |-> 2], TRUE)

\* C3: a file under a final artifact name holds complete content, in every
\* state, also in the middle of a write and after a failed one.
C3_FinalNamesHoldCompleteContent ==
    \A p \in DOMAIN files : IsFinal(p) => files[p].whole

\* C4: a thread that has a change of the file system under way (the
\* directory just made, a temp file awaiting its rename, a file opened and
\* being written) holds the file lock.
C4_MutationsUnderLock ==
    /\ call.pc \in {"ensured", "raw_replace", "meta_write"}
           => file_lock = CallerHolds
    /\ \A i \in DOMAIN tasks : tasks[i].pc = "replace" => file_lock = TaskHolds

\* C5: a save call with content over the ceiling returns failure at once:
\* directory, files, lock and task queue are as before the call, nothing of
\* the content is stored.
C5_OversizeRejectedBeforeIO ==
    [][(call'.n = call.n + 1 /\ call'.content.len > Ceiling) =>
         /\ call'.pc = "idle"
         /\ call'.result = "size"
         /\ ~call'.success
         /\ files' = files
         /\ dir_exists' = dir_exists
         /\ file_lock' = file_lock
         /\ tasks' = tasks
         /\ \A p \in DOMAIN files' : files'[p].of # call'.content.txt]_vars

\* save_enhanced_case_data has rejected an oversized content while
\* enrichment is enabled and the pool accepts tasks
C5_Witness ==
    /\ Returned
    /\ call.op = "save_enhanced_case_data"
    /\ call.content.len > Ceiling
    /\ call.result = "size"
    /\ context_processing_enabled
    /\ ~pool_shutdown

\* C6: when the save the monitor uses (save_enhanced_case_data with
\* enrichment enabled, save_with_metadata without) has returned success, the
\* raw file and a basic metadata file of the capture exist.
C6_RawAndMetadataExistAfterSave ==
    (/\ ReturnedOk
     /\ \/ call.op = "save_enhanced_case_data" /\ context_processing_enabled
        \/ call.op = "save_with_metadata" /\ ~context_processing_enabled)
    => /\ Exists(files, call.file_path)
       /\ \/ Exists(files, Companion(call.file_path, "metadata"))
          \/ Exists(files, Companion(call.filename, "metadata"))

\* C7: save_enhanced_case_data returns success exactly when its raw save
\* stored the raw file.
C7_EnhancedResultIsRawSaveResult ==
    (Returned /\ call.op = "save_enhanced_case_data")
    => (call.result = "ok" <=> call.success)

\* C8: save_case_data or save_with_metadata that returns failure for a
\* directory or file error has put nothing under a final name.
C8_FailedSaveLeavesNoFinalFile ==
    (/\ Returned
     /\ call.op \in {"save_case_data", "save_with_metadata"}
     /\ call.result \in {"dir", "io"})
    => call.wrote = {}

\* C9: the metadata file of a capture stored under a suffixed name is named
\* after the suffixed name, and no companion file changes from one capture's
\* data to another's.
C9_CompanionsNamedAfterStoredRaw ==
    [][/\ (/\ call.pc = "meta_open"
           /\ call'.pc = "meta_write"
           /\ call.file_path # call.filename)
          => call'.metadata_path = Companion(call.file_path, "metadata")
       /\ \A p \in DOMAIN files :
            (IsFinal(p) /\ ~IsRaw(p))
            => (Exists(files', p) /\ files'[p].of = files[p].of)]_vars

\* what the monitor holds besides the callers' frames
monitorState == <<monitoring, monitor_thread, workers, clipboard,
                  last_content, content_hash_cache, processed>>

\* C10: start_monitoring called while the flag is set returns True, and
\* stop_monitoring called while it is clear returns, each at once and with
\* no change to the monitor or its threads.
C10_StartStopIdempotent ==
    [][\A c \in Callers :
         /\ (/\ callers'[c].n = callers[c].n + 1
             /\ callers'[c].op = "start"
             /\ monitoring)
            => /\ callers'[c].pc = "idle"
               /\ callers'[c].result = "true"
               /\ UNCHANGED monitorState
         /\ (/\ callers'[c].n = callers[c].n + 1
             /\ callers'[c].op = "stop"
             /\ ~monitoring)
            => /\ callers'[c].pc = "idle"
               /\ callers'[c].result = "returned"
               /\ UNCHANGED monitorState]_vars

\* "ui" has stopped an idle monitor and "main" has started a running one:
\* two starts by "main" and still one worker thread
C10_Witness ==
    /\ callers["ui"] = [pc |-> "idle", op |-> "stop", n |-> 1,
                        result |-> "returned"]
    /\ callers["main"] = [pc |-> "idle", op |-> "start", n |-> 2,
                          result |-> "true"]
    /\ Len(workers) = 1
    /\ monitoring

----------------------------------------------------------------------------
(* The monitor's claims. *)

\* C11: whatever goes wrong inside a pass of the loop (the clipboard cannot
\* be read, the processing or the callback raises), the worker stays alive:
\* a worker ends only at the loop test, on finding the monitoring flag clear.
C11_FaultsNeverEndWorker ==
    [][\A k \in DOMAIN workers :
         (workers[k].pc # "dead" /\ workers'[k].pc = "dead")
         => (workers[k].pc = "loop" /\ ~monitoring)]_vars

\* the processing of a content let an exception through, and the worker
\* that ran it is alive and about to sleep
C11_Witness ==
    /\ event.step = "accept"
    /\ event.raised
    /\ Alive(event.worker)
    /\ workers[event.worker].pc = "sleep"
    /\ monitoring

\* every worker thread has ended
AllDead == \A k \in DOMAIN workers : workers[k].pc = "dead"

\* C12: once the monitoring flag is clear, every worker that gets to run
\* ends unless the flag is set again; a worker that finds the flag clear at
\* the loop test ends there, and a worker that has ended starts no pass.
C12_StopEndsWorker ==
    /\ ~monitoring ~> (AllDead \/ monitoring)
    /\ [][\A k \in DOMAIN workers :
            /\ (workers[k].pc = "loop" /\ ~monitoring /\ workers'[k] # workers[k])
               => workers'[k].pc = "dead"
            /\ workers[k].pc = "dead" => workers'[k].pc = "dead"]_vars

\* stop_monitoring has returned, the flag is clear and the worker that was
\* polling has ended
C12_Witness ==
    /\ callers["ui"].op = "stop"
    /\ callers["ui"].pc = "idle"
    /\ callers["ui"].result \in {"joined", "timeout"}
    /\ ~monitoring
    /\ workers # << >>
    /\ AllDead

\* C13: a poll that reads a content over the ceiling does not take it on,
\* leaves the hash cache and last_content as they were, writes nothing and
\* goes straight back to the loop test; last_content never is an oversized
\* content, so the next poll finds the content changed again.
C13_OversizedSkipped ==
    [][/\ (event'.step = "poll" /\ event'.content.len > Ceiling)
          => /\ ~event'.taken
             /\ workers'[event'.worker].pc = "loop"
             /\ content_hash_cache' = content_hash_cache
             /\ processed' = processed
             /\ last_content' = last_content
             /\ last_content # event'.content
             /\ files' = files
             /\ tasks' = tasks
       /\ last_content'.len <= Ceiling]_vars

\* a poll has skipped the oversized content that is still in the clipboard
C13_Witness ==
    /\ event.step = "poll"
    /\ event.content.len > Ceiling
    /\ ~event.taken
    /\ clipboard = event.content
    /\ last_content # event.content
    /\ Hash(event.content) \notin content_hash_cache
    /\ workers[event.worker].pc = "loop"

\* C14: a poll that reads a content whose hash is in the cache does not
\* take it on, and no content is processed that has been processed since
\* the cache was last cleared.
C14_ProcessedOncePerCache ==
    [][/\ (event'.step = "poll" /\ Hash(event'.content) \in content_hash_cache)
          => ~event'.taken
       /\ event'.step = "accept" => event'.content.txt \notin processed]_vars

\* C15: the hash cache never holds more than 100 hashes.
C15_CacheBounded == Cardinality(content_hash_cache) <= CacheLimit

\* the keys of result_data
RecordKeys == {"success", "message", "filename", "content", "metadata", "timestamp"}

\* C16: when a content with an identifier has been processed, the callback
\* has been given a record with the six keys, and every record it has been
\* given says success exactly when the save succeeded.
C16_CallbackGetsSaveOutcome ==
    (event.step = "accept" /\ is_valid_case_data(event.content.text))
    => /\ event.delivered # << >>
       /\ \A i \in DOMAIN event.delivered :
            /\ DOMAIN event.delivered[i] = RecordKeys
            /\ event.delivered[i].content = event.content.txt
            /\ event.delivered[i].success <=> event.save = "ok"

\* C17: a poll of an oversized content or of one whose hash is in the cache
\* does not take the content on, and the processing of a content with no
\* identifier makes no save; in both cases no file is written, no task is
\* queued and the callback is not called.
C17_SuppressedIsSilent ==
    [][(\/ /\ event'.step = "poll"
           /\ \/ event'.content.len > Ceiling
              \/ Hash(event'.content) \in content_hash_cache
        \/ /\ event'.step = "accept"
           /\ ~is_valid_case_data(event'.content.text))
       => /\ event'.step = "poll" => ~event'.taken
          /\ event'.save = "none"
          /\ event'.delivered = << >>
          /\ files' = files
          /\ tasks' = tasks]_vars

\* a poll has passed over a content that an earlier pass saved
C17_Witness ==
    /\ event.step = "poll"
    /\ ~event.taken
    /\ event.content.len <= Ceiling
    /\ Hash(event.content) \in content_hash_cache
    /\ is_valid_case_data(event.content.text)
    /\ files # EmptyDir

----------------------------------------------------------------------------
(* The parser's claims. *)

\* the parser has applied its three functions to the text
Parsed == parser.pc = "done"

\* C18: for every text, None and the empty one too, is_valid_case_data is
\* true exactly when extract_case_ids finds an ICM or a case identifier, and
\* exactly when generate_filename gives a filename.
C18_ValidIffIdentifierIffFilename ==
    Parsed =>
        /\ parser.valid <=> (parser.ids.icm_id # Absent \/ parser.ids.case_id # Absent)
        /\ parser.valid <=> parser.filename # Absent

\* a text with an ICM identifier and no case identifier has been found valid
C18_Witness ==
    /\ Parsed
    /\ parser.valid
    /\ parser.ids.icm_id # Absent
    /\ parser.ids.case_id = Absent
    /\ parser.filename # Absent

\* C19: generate_filename gives "<icm>_<case>.txt" when both identifiers are
\* extracted, "ICM_<icm>.txt" for the ICM identifier alone, "Case_<case>.txt"
\* for the case identifier alone and None when neither is extracted.
C19_FilenamePolicy ==
    Parsed =>
        LET icm == parser.ids.icm_id
            case == parser.ids.case_id
        IN  /\ (icm # Absent /\ case # Absent) =>
                 parser.filename = icm \o <<"_">> \o case \o <<".", "t", "x", "t">>
            /\ (icm # Absent /\ case = Absent) =>
                 parser.filename = <<"I", "C", "M", "_">> \o icm \o <<".", "t", "x", "t">>
            /\ (icm = Absent /\ case # Absent) =>
                 parser.filename =
                     <<"C", "a", "s", "e", "_">> \o case \o <<".", "t", "x", "t">>
            /\ (icm = Absent /\ case = Absent) => parser.filename = Absent

\* a text with a case identifier of 14 digits and no ICM identifier has
\* been given its filename
C19_Witness ==
    /\ Parsed
    /\ parser.ids.icm_id = Absent
    /\ Len(parser.ids.case_id) = CaseDigits + 1
    /\ Len(parser.filename) = 5 + CaseDigits + 1 + 4

\* identifier pairs: the ICM identifier absent or nine digits, the case
\* identifier absent or 13 or more digits, one of the two present
IcmIds == {SubSeq(d, 1, IcmDigits) : d \in {r \in Runs : Len(r) >= IcmDigits}}
CaseIds == {r \in Runs : Len(r) >= CaseDigits}
IdPairs ==
    [icm_id : IcmIds \cup {Absent}, case_id : CaseIds \cup {Absent}]
    \ {[icm_id |-> Absent, case_id |-> Absent]}

\* C20: the filename is a function of the identifier pair, and no other
\* pair has the same filename.
C20_FilenameInjective ==
    (Parsed /\ parser.ids \in IdPairs) =>
        /\ parser.filename = filenameFor(parser.ids)
        /\ \A q \in IdPairs : q # parser.ids => filenameFor(q) # parser.filename

\* a text with both identifiers has been given its filename
C20_Witness ==
    /\ Parsed
    /\ parser.ids \in IdPairs
    /\ parser.ids.icm_id # Absent
    /\ parser.ids.case_id # Absent
    /\ parser.filename # Absent

\* the chain of extract_case_ids 43-65, in its order
CaseStages == <<"Support Request Number:", "Case", "CRI", "digits">>

\* what stage s of the chain finds in a text
StageValue(toks, s) ==
    IF CaseStages[s] = "digits" THEN SearchSimple(toks)
    ELSE SearchKeyword(toks, CaseStages[s])

\* the stages that match in a text
Matching(toks) == {s \in DOMAIN CaseStages : StageValue(toks, s) # Absent}

\* C21: the case identifier is what the first stage of the chain that
\* matches finds, wherever in the text the later stages match; it is absent
\* only when no stage matches.
C21_FirstStageWins ==
    (Parsed /\ ~parser.text.none) =>
        IF Matching(parser.text.toks) = {}
        THEN parser.ids.case_id = Absent
        ELSE parser.ids.case_id
                = StageValue(parser.text.toks, Least(Matching(parser.text.toks)))

\* a text whose first token is a run of 13 digits or more, which the last
\* stage matches, and whose "Case" further on is followed by another run:
\* the case identifier is the run after "Case"
C21_Witness ==
    /\ Parsed
    /\ Len(parser.text.toks) = 3
    /\ IsRun(parser.text.toks[1], CaseDigits)
    /\ parser.text.toks[2].k = "Case"
    /\ IsRun(parser.text.toks[3], CaseDigits)
    /\ parser.text.toks[1] # parser.text.toks[3]
    /\ SearchSimple(parser.text.toks) = parser.text.toks[1].d
    /\ parser.ids.case_id = parser.text.toks[3].d

\* C22: an ICM identifier that extract_case_ids returns is a whole digit run
\* of the text, nine digits long, that comes after an "ICM".
C22_IcmIsWholeRun ==
    (Parsed /\ parser.ids.icm_id # Absent) =>
        /\ Len(parser.ids.icm_id) = IcmDigits
        /\ \E i, j \in DOMAIN parser.text.toks :
              /\ i < j
              /\ parser.text.toks[i].k = "ICM"
              /\ parser.text.toks[j] = Run(parser.ids.icm_id)

----------------------------------------------------------------------------
(* The retention sweep's claim. *)

\* the raw captures the sweep found older than the cutoff
OldRaw == {p \in RawFiles(sweep.before) : p \in old}

\* C23: when cleanup_old_files has returned, the files gone from the
\* directory are the raw captures older than the cutoff and the metadata
\* file of each, every other file is as it was, and the count returned is
\* the number of raw captures removed.
C23_SweepRemovesOldRaw ==
    sweep.pc = "done" =>
        /\ DOMAIN files
             = DOMAIN sweep.before
                 \ (OldRaw \cup {Companion(p, "metadata") : p \in OldRaw})
        /\ \A p \in DOMAIN files : files[p] = sweep.before[p]
        /\ sweep.count = Cardinality(OldRaw)

----------------------------------------------------------------------------
(* The monitor's claims, continued. *)

\* C24: when the hash of a content that is taken on brings the cache over
\* 100 hashes, the cache is empty once the content has been dealt with; a
\* changed content whose hash is not in the cache, one seen before the
\* clear too, is taken on, and no content is processed twice between two
\* clears.
C24_FullCacheEmptied ==
    [][/\ (/\ event'.step = "accept"
           /\ Cardinality(content_hash_cache \cup {Hash(event'.content)})
                > CacheLimit)
          => content_hash_cache' = {}
       /\ (/\ event'.step = "poll"
           /\ event'.content.len <= Ceiling
           /\ Hash(event'.content) \notin content_hash_cache)
          => event'.taken
       /\ event'.step = "accept" => event'.content.txt \notin processed]_vars

\* the threads that are running _monitor_loop
LiveWorkers == {k \in DOMAIN workers : Alive(k)}

\* C25: at most one thread is running the poll loop.
C25_OneWorker == Cardinality(LiveWorkers) <= 1

\* stop_monitoring has returned and no call has come after it
Stopped ==
    /\ callers["ui"].op = "stop"
    /\ callers["ui"].pc = "idle"

\* C26: once stop_monitoring has returned, with the worker joined or not,
\* no worker saves a content or queues an enrichment task.
C26_NoSaveAfterStop ==
    [][(Stopped /\ callers' = callers)
       => /\ ~(event'.step = "accept" /\ event'.save # "none")
          /\ files' = files
          /\ tasks' = tasks]_vars

\* C27: a worker that has read the clipboard sleeps before it reads again:
\* from the read it goes to sleep, at once or by way of the processing, and
\* only a worker that has slept comes back to the loop test.
C27_SleepBetweenReads ==
    [][\A k \in DOMAIN workers :
         /\ (workers[k].pc = "poll" /\ workers'[k].pc # "poll")
            => workers'[k].pc \in {"sleep", "accept"}
         /\ (workers[k].pc = "accept" /\ workers'[k].pc # "accept")
            => workers'[k].pc = "sleep"
         /\ (workers[k].pc # "loop" /\ workers'[k].pc = "loop")
            => workers[k].pc = "sleep"]_vars

\* C28: the processing of a content calls the callback at most once.
C28_CallbackAtMostOnce ==
    event.step = "accept" => Len(event.delivered) <= 1

\* start_monitoring has returned and the flag is set
MonitorRuns == monitoring /\ callers["ui"].pc = "idle"

\* the contents that have an identifier and are not over the ceiling
Savable == {c \in Clips : c.len <= Ceiling /\ is_valid_case_data(c.text)}

\* content c waits in the clipboard: it is not the last content the
\* monitor took and its hash is not in the cache
Pending(c) ==
    /\ MonitorRuns
    /\ clipboard = c
    /\ c # last_content
    /\ Hash(c) \notin content_hash_cache

\* the processing of content c has given the callback a record
Delivered(c) ==
    /\ event.step = "accept"
    /\ event.content = c
    /\ event.delivered # << >>

----------------------------------------------------------------------------
(* The enrichment tasks' claim. *)

\* the artifacts that the tasks for filename f write
Family(f) == {Companion(f, Stages[i]) : i \in DOMAIN Stages}

\* C30: when the tasks have finished, none of them cut short by an error,
\* the enhanced metadata, the protocol and the condensed file of a
\* filename come from one task: they were made from the same capture.
C30_FamilyFromOneTask ==
    \A f \in Filenames :
        (/\ tasks = << >>
         /\ faults = 0
         /\ \A p \in Family(f) : Exists(files, p) /\ files[p].whole)
        => \A p, q \in Family(f) : files[p].of = files[q].of

\* the raw captures and the metadata files that save_with_metadata writes
Basic(fs) == {p \in DOMAIN fs : IsFinal(p) /\ p.tag \in {"", "metadata"}}

\* a step of the thread pool: a task starts, analyses, writes or ends
TaskStep == tasks' # tasks /\ call' = call

\* C31: no step of an enrichment task, be it the last of a task that wrote
\* its three artifacts, of one that stopped on an analysis error or of one
\* that raised, changes or removes a raw capture or a metadata file.
C31_TasksLeaveRawAlone ==
    [][TaskStep =>
         \A p \in Basic(files) : Exists(files', p) /\ files'[p] = files[p]]_vars

\* the tasks have ended, one of them has written the condensed file of a
\* capture, and the raw file of that capture holds what the save wrote
C31_Witness ==
    /\ tasks = << >>
    /\ ReturnedOk
    /\ \E f \in Filenames :
          /\ Exists(files, Companion(f, "condensed"))
          /\ Exists(files, f)
          /\ files[f].kind = "raw"
          /\ files[f].whole

----------------------------------------------------------------------------
(* The context processor's claims. *)

\* process_case_content has returned to the enrichment task of f
HasResult(f) == enrichers[f].pc = "got"

\* the analysis of f's content takes the concurrent path
Concurrent(f) ==
    langchain_available /\ performance_mode /\ Len(enrichers[f].content) > 1

\* the three files an enrichment task writes for f
Artifacts(f) ==
    {Companion(f, st) : st \in {"enhanced_metadata", "context_protocol", "condensed"}}

\* the enrichment task of f has the result of its own call of
\* process_case_content in hand, and the result is error-tagged
GotError(f) ==
    /\ HasResult(f)
    /\ enrichers[f].phase = "enrich"
    /\ enrichers[f].result.error # NoError

\* C32: when the analysis of the whole document takes longer than the outer
\* timeout, process_case_content returns a result with error set; and the
\* enrichment task that receives an error-tagged result ends without any of
\* its three files written.
C32_TimeoutTagsResult ==
    /\ [](\A f \in DOMAIN enrichers :
            (HasResult(f) /\ analyses[f].spent >= context_processing_timeout)
                => enrichers[f].result.error # NoError)
    /\ [][\A f \in DOMAIN enrichers :
            (GotError(f) /\ enrichers'[f] # enrichers[f])
                => /\ enrichers'[f].pc = "end"
                   /\ \A p \in Artifacts(f) : ~Exists(files', p)]_vars

\* an enrichment task that ended on the result of an analysis that timed out
C32_Witness ==
    \E f \in DOMAIN enrichers :
        /\ enrichers[f].pc = "end"
        /\ enrichers[f].phase = "enrich"
        /\ enrichers[f].result.error = "Processing timed out"
        /\ analyses[f].spent >= context_processing_timeout
        /\ \A p \in Artifacts(f) : ~Exists(files, p)

\* what the sequential loop yields without the chunks in late
Without(chunks, late) ==
    SelectSeq(Sequential(chunks), LAMBDA c : c.chunk_id \notin late)

\* C33: in concurrent mode a chunk whose result does not come within the
\* per-chunk timeout is left out and the analysis does not fail: the result
\* has no error and holds every other chunk, in increasing chunk_id order.
C33_LateChunkOnlyOmitted ==
    \A f \in DOMAIN enrichers :
        (HasResult(f) /\ Concurrent(f) /\ analyses[f].late # {}) =>
            /\ enrichers[f].result.error = NoError
            /\ enrichers[f].result.chunks
                 = Without(enrichers[f].content, analyses[f].late)

\* the document analyses that hold a pool thread while they wait for chunks
Waiting ==
    {w \in thread_pool.running : w.kind = "doc" /\ analyses[w.of].pc = "collect"}

\* C34: the document analyses never hold every thread of the pool while
\* chunk tasks they wait for are in the queue behind them.
C34_ChunksGetAThread ==
    ~(/\ Cardinality(Waiting) = max_workers
      /\ \E w \in Queued : w.kind = "chunk")

\* C35: when no chunk times out, the concurrent path yields the chunk list
\* of the sequential path: the same chunk_ids, in the same order, with the
\* same analysis of each chunk.
C35_ConcurrentAsSequential ==
    \A f \in DOMAIN enrichers :
        (/\ HasResult(f)
         /\ Concurrent(f)
         /\ analyses[f].pc = "done"
         /\ analyses[f].late = {})
            => enrichers[f].result.chunks = Sequential(enrichers[f].content)

\* a long document analysed on the concurrent path with no chunk late
C35_Witness ==
    \E f \in DOMAIN enrichers :
        /\ HasResult(f)
        /\ Concurrent(f)
        /\ analyses[f].pc = "done"
        /\ analyses[f].late = {}
        /\ Len(enrichers[f].content) = MaxChunks
        /\ Len(enrichers[f].result.chunks) = MaxChunks

\* C36: generate_support_context_protocol returns a protocol record and
\* does not raise, also when the analysis under it returned an error-tagged
\* result.
C36_ProtocolNeverRaises ==
    \A f \in DOMAIN enrichers :
        /\ enrichers[f].protocol # "raised"
        /\ (enrichers[f].phase = "protocol" /\ enrichers[f].pc = "end")
              => enrichers[f].protocol = "record"

\* the order in which the categories are tried
CategoryOrder ==
    <<"error_information", "critical_information", "resolution_information",
      "problem_description", "customer_information", "temporal_information",
      "configuration_information">>

\* the categories one of whose keywords occurs in the lower-cased text
Hits(text) == {i \in DOMAIN CategoryOrder : AnyOf(CategoryOrder[i], Lower(text))}

\* C37: a chunk gets one content type: the first of error, critical,
\* resolution, problem description, customer, temporal, configuration one of
\* whose keywords occurs in the lower-cased text, and general information
\* when none does.
C37_FirstCategoryWins ==
    chunk.pc = "done" =>
        chunk.content_type
            = IF Hits(chunk.text) = {} THEN "general_information"
              ELSE CategoryOrder[Least(Hits(chunk.text))]

\* a chunk with keywords of three categories, one inside a longer word and
\* one capitalised, that got the first of the three
C37_Witness ==
    /\ chunk.pc = "done"
    /\ chunk.text = {"prefix", "Customer", "setup"}
    /\ chunk.content_type = "resolution_information"

----------------------------------------------------------------------------
(* The batch analysis's claim. *)

\* C38: analyze_existing_files run again on a directory that nothing else
\* touches creates no file and changes none: when the second run returns,
\* the directory is as the run found it.
C38_SecondRunChangesNothing ==
    (scan.pc = "done" /\ scan.run >= 2) => files = scan.before

====
